---- MODULE Spec2Model ----
(***************************************************************************)
(* Model of nvimpam's card-grammar interpreter: the comment-filtering      *)
(* cursor (NoCommentIter), the skip functions working on it, the full      *)
(* parse loop (BufData::parse_from_iter) and the incremental update        *)
(* (BufData::update).                                                      *)
(*                                                                         *)
(* Line numbers are 0-based as in the code; line n of a buffer ls is       *)
(* ls[n + 1].  A line is represented by its text; the keyword of a line    *)
(* is a function of its text, as Keyword::parse computes it.               *)
(***************************************************************************)
EXTENDS Integers, Sequences, FiniteSets, TLC

VARIABLES lines, w, bd, last, ev

vars == <<lines, w, bd, last, ev>>

\* The event loop has not been started.
NoEvents == [status |-> "none"]

\* Longest buffer the model looks at.
MaxLen == 4

\* Longest buffer the orchestrator is run on, longest replacement text of
\* one update, and most updates between two full parses.
MaxBuf == 2

MaxData == 1

MaxUpdates == 2

\* SpecSplice: the containers hold entries for the lines 0..MaxSpliceLine-1.
MaxSpliceLine == 3

\* F applied to the value of v; v is computed once.
With(v, F(_)) == CHOOSE r \in {F(x) : x \in {v}} : TRUE

\* Option::None for a line number (Option<ParsedLine>, Option<KeywordLine>).
NoLine == -1

-----------------------------------------------------------------------------
(* Line texts, keywords, GES predicates, conditionals                       *)

\* The texts a line can have.  "#" is a comment line; NODE, MASS, OPT, OBLK and
\* BLK are keyword lines; "x" is a data line; "2" is a data line whose first
\* column holds the number 2; PART is a line of a GES body; END ends a GES.
Texts == {"#", "x", "2", "PART", "END", "NODE", "MASS", "OPT", "OBLK", "BLK"}

\* The texts of the lines SpecRows looks at: "0" is a data line whose first
\* column holds the number 0; OPN and REP are keyword lines.
RowTexts == {"x", "2", "0", "NODE", "OPN", "REP"}

CardNames == {"NODE", "MASS", "OPT", "OBLK", "BLK", "OPN", "REP"}

\* The characters of a text, by column.
Chars(t) ==
  CASE t = "#" -> <<"#">>
    [] t = "x" -> <<"x">>
    [] t = "2" -> <<"2">>
    [] t = "PART" -> <<" ", "P", "A", "R", "T">>
    [] t = "END" -> <<" ", "E", "N", "D">>
    [] t = "NODE" -> <<"N", "O", "D", "E">>
    [] t = "MASS" -> <<"M", "A", "S", "S">>
    [] t = "OPT" -> <<"O", "P", "T">>
    [] t = "OBLK" -> <<"O", "B", "L", "K">>
    [] t = "BLK" -> <<"B", "L", "K">>
    [] t = "0" -> <<"0">>
    [] t = "OPN" -> <<"O", "P", "N">>
    [] t = "REP" -> <<"R", "E", "P">>

\* Keyword::parse: "Comment" for a comment line, the card's keyword for a
\* keyword line, "None" (no keyword) otherwise.
Keyword(t) ==
  IF Chars(t)[1] = "#" THEN "Comment"
  ELSE IF t \in CardNames THEN t
  ELSE "None"

\* GesType::contains and GesType::ended_by of the one GES type of the model.
GesContains(t) == t = "PART"

GesEndedBy(t) == t = "END"

\* [u8]::starts_with, for the prefixes the cards of the model use.
StartsWith(t, s) ==
  /\ Len(Chars(s)) <= Len(Chars(t))
  /\ \A i \in 1..Len(Chars(s)) : Chars(t)[i] = Chars(s)[i]

\* CondResult::Bool(b)
CondBool(b) == [t |-> "Bool", v |-> IF b THEN 1 ELSE 0]

\* CondResult::Number(Some(n)) and CondResult::Number(None)
CondNumber(n) == [t |-> "Number", v |-> n]
CondNumberNone == [t |-> "NumberNone", v |-> 0]

\* Conditional::evaluate.  RelChar(idx, c): the character at the 0-based
\* column idx is c.  IntAt(idx): the number written at column idx, if any.
Evaluate(c, t) ==
  IF c.kind = "RelChar"
  THEN CondBool(c.idx + 1 <= Len(Chars(t)) /\ Chars(t)[c.idx + 1] = c.c)
  ELSE IF c.idx + 1 <= Len(Chars(t)) /\ Chars(t)[c.idx + 1] = "2"
       THEN CondNumber(2)
       ELSE IF c.idx + 1 <= Len(Chars(t)) /\ Chars(t)[c.idx + 1] = "0"
            THEN CondNumber(0)
            ELSE CondNumberNone

-----------------------------------------------------------------------------
(* The card registry                                                        *)

NoCond == [kind |-> "None", idx |-> 0, c |-> ""]

Row(kind) == [kind |-> kind, i |-> 0, s1 |-> "", s2 |-> "", cond |-> NoCond]

Cells == Row("Cells")
Ges == Row("Ges")
Provides(c) == [Row("Provides") EXCEPT !.cond = c]
Optional(i) == [Row("Optional") EXCEPT !.i = i]
Repeat(i) == [Row("Repeat") EXCEPT !.i = i]
Block(s) == [Row("Block") EXCEPT !.s1 = s]
OptionalBlock(s1, s2) == [Row("OptionalBlock") EXCEPT !.s1 = s1, !.s2 = s2]

RelChar(idx, c) == [kind |-> "RelChar", idx |-> idx, c |-> c]
IntAt(idx) == [kind |-> "Int", idx |-> idx, c |-> ""]

\* Card: keyword, ownfold and the lines (rows) of the card.
Card(k) ==
  CASE k = "NODE" ->
         [keyword |-> "NODE", ownfold |-> FALSE, lines |-> <<Cells>>]
    [] k = "MASS" ->
         [keyword |-> "MASS", ownfold |-> TRUE,
          lines |-> <<Cells, Ges, Cells>>]
    [] k = "OPT" ->
         [keyword |-> "OPT", ownfold |-> TRUE,
          lines |-> <<Provides(RelChar(1, "P")), Provides(IntAt(0)), Repeat(1),
                      Optional(0), Optional(2)>>]
    [] k = "OBLK" ->
         [keyword |-> "OBLK", ownfold |-> TRUE,
          lines |-> <<Cells, OptionalBlock("x", "END"), Cells>>]
    [] k = "BLK" ->
         [keyword |-> "BLK", ownfold |-> TRUE,
          lines |-> <<Cells, Block("END")>>]
    [] k = "OPN" ->
         [keyword |-> "OPN", ownfold |-> TRUE,
          lines |-> <<Provides(RelChar(0, "x")), Provides(IntAt(0)),
                      Provides(RelChar(0, "x")), Optional(0), Optional(1),
                      Optional(2), Optional(3)>>]
    [] k = "REP" ->
         [keyword |-> "REP", ownfold |-> TRUE,
          lines |-> <<Provides(RelChar(0, "R")), Provides(IntAt(0)),
                      Repeat(0), Repeat(2), Repeat(1)>>]

-----------------------------------------------------------------------------
(* The comment-filtering cursor                                             *)

\* ParsedLine of line n of the buffer ls: its text and its keyword.
Text(ls, n) == ls[n + 1]

Kw(ls, n) == Keyword(ls[n + 1])

\* ParsedLine::try_into_keywordline succeeds: the line carries a keyword.
IsKeywordLine(ls, n) == n # NoLine /\ Kw(ls, n) # "None"

\* A cursor that filters nothing: the underlying iterator's next line.
NextIdxSkipNothing(ls, pos, hi) == IF pos < hi THEN pos ELSE NoLine

\* The line NoCommentIter::next returns when the underlying iterator stands
\* before line pos and ends before line hi: the first line from pos on whose
\* keyword is not Comment, NoLine when there is none.
NextIdx(ls, pos, hi) ==
  LET cand == {n \in pos..(hi - 1) : Kw(ls, n) # "Comment"}
  IN IF cand = {} THEN NoLine
     ELSE CHOOSE n \in cand : \A m \in cand : n <= m

\* A cursor that stays at the line it returns, so that its line numbers do
\* not grow from one call to the next.
PullStays(ls, s) ==
  LET n == NextIdx(ls, s.pos, s.hi)
  IN [s EXCEPT !.got = n,
               !.pos = IF n = NoLine THEN s.hi ELSE n,
               !.delivered = IF n = NoLine THEN @ ELSE Append(@, n)]

\* NoCommentIter::next on the walker state s: got is the line returned
\* (NoLine for None), pos the new position of the underlying iterator, and
\* delivered the history of the lines the cursor has returned.
Pull(ls, s) ==
  LET n == NextIdx(ls, s.pos, s.hi)
  IN [s EXCEPT !.got = n,
               !.pos = IF n = NoLine THEN s.hi ELSE n + 1,
               !.delivered = IF n = NoLine THEN @ ELSE Append(@, n)]

\* SkipResult { skip_end, nextline }
SkipResult(skip_end, nextline) == [skip_end |-> skip_end, nextline |-> nextline]

NoResult == SkipResult(NoLine, NoLine)

\* Option<SkipResult> as skip_ges returns it: None, or Some(sr).
GesNone == [some |-> FALSE, sr |-> NoResult]

GesSome(sr) == [some |-> TRUE, sr |-> sr]

-----------------------------------------------------------------------------
(* The walker: parse_from_iter and the skip functions, one step per loop     *)
(* iteration.  pc names the place in the code the walker stands at.         *)

\* The state at the entry of parse_from_iter over the lines lo..hi-1.
WInit(lo, hi) ==
  [pc |-> "skip_to_next_keyword", pos |-> lo, hi |-> hi, got |-> NoLine,
   delivered |-> <<>>,
   kwline |-> NoLine, skipline |-> NoLine, card |-> "None", gather |-> FALSE,
   row |-> 0, conds |-> <<>>, previdx |-> NoLine, nextline |-> NoLine,
   rep |-> 0,
   gskip |-> NoLine, gprev |-> NoLine, gnext |-> NoLine, gres |-> GesNone,
   res |-> NoResult, folds |-> <<>>, hls |-> <<>>, err |-> FALSE]

\* A walker that is not running.
WIdle == [WInit(0, 0) EXCEPT !.pc = "idle"]

\* Highlights::add_line_highlights(n, cardline.highlights(text)): the entry
\* for line n, computed from the cells of row r of card k and the line's text.
AddLineHighlights(hls, ls, n, k, r) ==
  Append(hls, [line |-> n, card |-> k, row |-> r, text |-> Text(ls, n)])

\* return from skip_card with the given SkipResult: to the loop of
\* skip_card_gather when the card is gathered, to parse_from_iter otherwise.
ReturnCard(s, skip_end, nextline) ==
  [s EXCEPT !.res = SkipResult(skip_end, nextline),
            !.pc = IF s.gather THEN "skip_card_gather" ELSE "fold_done"]

\* A next_or_return_previdx! that returns the keyword line as skip_end when
\* the input ends.
NextOrReturnSkipline(ls, s, previdx, pcnext) ==
  With(Pull(ls, s), LAMBDA p :
    IF p.got = NoLine
    THEN ReturnCard(p, s.skipline, NoLine)
    ELSE [p EXCEPT !.previdx = previdx, !.nextline = p.got, !.pc = pcnext])

\* next_or_return_previdx!(self, previdx) followed by `nextline = ...` and a
\* jump to pcnext.
NextOrReturnPrevidx(ls, s, previdx, pcnext) ==
  With(Pull(ls, s), LAMBDA p :
    IF p.got = NoLine
    THEN ReturnCard(p, previdx, NoLine)
    ELSE [p EXCEPT !.previdx = previdx, !.nextline = p.got, !.pc = pcnext])

\* An advance! that does not move previdx to the line it leaves.
AdvanceKeepsPrevidx(ls, s, pcnext) ==
  NextOrReturnPrevidx(ls, s, s.previdx, pcnext)

\* advance!(self, previdx, nextline), then a jump to pcnext
Advance(ls, s, pcnext) == NextOrReturnPrevidx(ls, s, s.nextline, pcnext)

\* A skip_to_next_keyword that returns the first line it gets.
SkipToNextKeywordFirstLine(ls, s) ==
  With(Pull(ls, s), LAMBDA p :
    IF p.got = NoLine
    THEN [p EXCEPT !.pc = "done"]
    ELSE [p EXCEPT !.kwline = p.got, !.pc = "skip_fold"])

\* skip_to_next_keyword, one iteration of its loop.
SkipToNextKeyword(ls, s) ==
  With(Pull(ls, s), LAMBDA p :
    IF p.got = NoLine
    THEN [p EXCEPT !.pc = "done"]
    ELSE IF IsKeywordLine(ls, p.got)
         THEN [p EXCEPT !.kwline = p.got, !.pc = "skip_fold"]
         ELSE p)

\* parse_from_iter, lines 203-205, and skip_fold: dispatch by Card.ownfold.
SkipFold(ls, s) ==
  LET card == Card(Kw(ls, s.kwline))
  IN [s EXCEPT !.card = card.keyword, !.gather = ~card.ownfold,
               !.skipline = s.kwline, !.pc = "skip_card"]

\* skip_card up to its loop over the rows: the first row is matched against
\* the keyword line, then the first line after it is fetched.
SkipCardEntry(ls, s) ==
  LET card == Card(s.card)
      first == card.lines[1]
      s1 == [s EXCEPT
               !.conds = IF first.kind = "Provides"
                         THEN <<Evaluate(first.cond, Text(ls, s.skipline))>>
                         ELSE <<>>,
               !.hls = AddLineHighlights(@, ls, s.skipline, s.card, 1),
               !.row = 1]
  IN NextOrReturnPrevidx(ls, s1, s.skipline, "rows")

\* advance!, then on to pckw when the new current line carries a keyword and
\* to pcelse when it does not.
AdvanceThen(ls, s, pckw, pcelse) ==
  With(Advance(ls, s, "advanced"), LAMBDA a :
    IF a.pc # "advanced" THEN a
    ELSE [a EXCEPT !.pc = IF IsKeywordLine(ls, a.nextline)
                          THEN pckw ELSE pcelse])

\* The current row of the walk and the next one the row loop takes.
CurRow(s) == Card(s.card).lines[s.row]

NextRow(s) == Card(s.card).lines[s.row + 1]

HasNextRow(s) == s.row < Len(Card(s.card).lines)

\* The loop over the rows takes the next row: the rows are used up, or the
\* current line carries a keyword (break); both end skip_card with
\* SkipResult { nextline: Some(nextline), skip_end: previdx }.
RowsLeave(ls, s) == ~HasNextRow(s) \/ IsKeywordLine(ls, s.nextline)

RowsEnd(ls, s) == ReturnCard(s, s.previdx, s.nextline)

\* conds.get(i)
CondGet(conds, i) ==
  IF i + 1 <= Len(conds) THEN conds[i + 1]
  ELSE [t |-> "Absent", v |-> 0]

\* CardLine::Provides
RowProvides(ls, s) ==
  LET r == NextRow(s)
      s1 == [s EXCEPT !.row = @ + 1,
                      !.conds = Append(@, Evaluate(r.cond, Text(ls, s.nextline)))]
  IN Advance(ls, s1, "rows")

\* CardLine::Cells
RowCells(ls, s) ==
  LET s1 == [s EXCEPT !.row = @ + 1,
                      !.hls = AddLineHighlights(@, ls, s.nextline, s.card,
                                                s.row + 1)]
  IN Advance(ls, s1, "rows")

\* An Optional row that takes its line whatever the condition.
RowOptionalAlways(ls, s) == Advance(ls, [s EXCEPT !.row = @ + 1], "rows")

\* CardLine::Optional
RowOptional(ls, s) ==
  LET r == NextRow(s)
      s1 == [s EXCEPT !.row = @ + 1]
  IN IF CondGet(s.conds, r.i) = CondBool(TRUE)
     THEN Advance(ls, s1, "rows")
     ELSE s1

\* CardLine::Repeat, up to its for loop
RowRepeat(ls, s) ==
  LET r == NextRow(s)
      c == CondGet(s.conds, r.i)
      s1 == [s EXCEPT !.row = @ + 1]
  IN IF c.t = "Number" /\ c.v > 0
     THEN [s1 EXCEPT !.rep = c.v, !.pc = "repeat"]
     ELSE s1

\* A repeat loop that does not look for a keyword on the new current line.
RepeatIterIgnoresKeyword(ls, s) ==
  LET s1 == [s EXCEPT !.rep = @ - 1]
  IN Advance(ls, s1, IF s1.rep = 0 THEN "rows" ELSE "repeat")

\* CardLine::Repeat, one iteration of `for _ in 0..*num`
RepeatIter(ls, s) ==
  LET s1 == [s EXCEPT !.rep = @ - 1]
  IN AdvanceThen(ls, s1, "rows", IF s1.rep = 0 THEN "rows" ELSE "repeat")

\* CardLine::Block, entering its loop
RowBlock(ls, s) == [s EXCEPT !.row = @ + 1, !.pc = "block"]

\* CardLine::Block, one iteration of the inner while loop, or, when the
\* current line starts with the terminator, the advance! after it.
BlockIter(ls, s) ==
  IF ~StartsWith(Text(ls, s.nextline), CurRow(s).s1)
  THEN AdvanceThen(ls, s, "block_advance", "block")
  ELSE Advance(ls, s, "block")

\* CardLine::Block, the advance! after the inner loop was left by break
BlockAdvance(ls, s) == Advance(ls, s, "block")

\* CardLine::OptionalBlock, up to its while loop
RowOptionalBlock(ls, s) ==
  LET r == NextRow(s)
      s1 == [s EXCEPT !.row = @ + 1]
  IN IF ~StartsWith(Text(ls, s.nextline), r.s1)
     THEN s1
     ELSE [s1 EXCEPT !.pc = "optblock"]

\* An OptionalBlock loop that does not advance.
OptBlockIterNoAdvance(ls, s) ==
  IF ~StartsWith(Text(ls, s.nextline), CurRow(s).s2)
  THEN [s EXCEPT !.pc = "optblock"]
  ELSE [s EXCEPT !.pc = "rows"]

\* CardLine::OptionalBlock, one iteration of its while loop
OptBlockIter(ls, s) ==
  IF ~StartsWith(Text(ls, s.nextline), CurRow(s).s2)
  THEN AdvanceThen(ls, s, "rows", "optblock")
  ELSE [s EXCEPT !.pc = "rows"]

\* return from skip_ges with the given Option<SkipResult>
ReturnGes(s, r) == [s EXCEPT !.gres = r, !.pc = "ges_done"]

\* next_or_return_some_previdx!(self, previdx)
NextOrReturnSomePrevidx(ls, s, previdx, pcnext) ==
  With(Pull(ls, s), LAMBDA p :
    IF p.got = NoLine
    THEN ReturnGes(p, GesSome(SkipResult(previdx, NoLine)))
    ELSE [p EXCEPT !.gprev = previdx, !.gnext = p.got, !.pc = pcnext])

\* advance_some!(self, previdx, nextline)
AdvanceSome(ls, s, pcnext) == NextOrReturnSomePrevidx(ls, s, s.gnext, pcnext)

\* A skip_ges that pulls a line also when the GES does not apply.
SkipGesEntryAlwaysPulls(ls, s, skipline) ==
  LET s1 == [s EXCEPT !.gskip = skipline, !.gprev = skipline,
                      !.gnext = NoLine]
      contained == GesContains(Text(ls, skipline))
      ends == GesEndedBy(Text(ls, skipline))
  IN IF ends
     THEN With(NextOrReturnSomePrevidx(ls, s1, skipline, "ges_ends"),
               LAMBDA n :
                 IF n.pc # "ges_ends" THEN n
                 ELSE ReturnGes(n, GesSome(SkipResult(n.gprev, n.gnext))))
     ELSE IF ~ends /\ ~contained
          THEN ReturnGes(Pull(ls, s1), GesNone)
          ELSE NextOrReturnSomePrevidx(ls, s1, skipline, "ges_while")

\* skip_ges(ges, skipline) up to its while loop
SkipGesEntry(ls, s, skipline) ==
  LET s1 == [s EXCEPT !.gskip = skipline, !.gprev = skipline,
                      !.gnext = NoLine]
      contained == GesContains(Text(ls, skipline))
      ends == GesEndedBy(Text(ls, skipline))
  IN IF ends
     THEN With(NextOrReturnSomePrevidx(ls, s1, skipline, "ges_ends"),
               LAMBDA n :
                 IF n.pc # "ges_ends" THEN n
                 ELSE ReturnGes(n, GesSome(SkipResult(n.gprev, n.gnext))))
     ELSE IF ~ends /\ ~contained
          THEN ReturnGes(s1, GesNone)
          ELSE NextOrReturnSomePrevidx(ls, s1, skipline, "ges_while")

\* CardLine::Ges: the call of skip_ges on the current line
RowGes(ls, s) == SkipGesEntry(ls, [s EXCEPT !.row = @ + 1], s.nextline)

\* A skip_ges that leaves the terminator of the GES unconsumed.
GesWhileLeavesTerminator(ls, s) ==
  IF GesContains(Text(ls, s.gnext))
  THEN AdvanceSome(ls, s, "ges_while")
  ELSE ReturnGes(s, GesSome(SkipResult(s.gprev, s.gnext)))

\* skip_ges, one iteration of `while ges.contains(nextline.text)`, or, when
\* the loop ends, the rest of the function.
GesWhile(ls, s) ==
  IF GesContains(Text(ls, s.gnext))
  THEN AdvanceSome(ls, s, "ges_while")
  ELSE IF GesEndedBy(Text(ls, s.gnext))
       THEN With(AdvanceSome(ls, s, "ges_ends"), LAMBDA a :
              IF a.pc # "ges_ends" THEN a
              ELSE ReturnGes(a, GesSome(SkipResult(a.gprev, a.gnext))))
       ELSE ReturnGes(s, GesSome(SkipResult(s.gprev, s.gnext)))

\* A Ges row that takes the nextline of skip_ges but not its skip_end.
GesDoneKeepsPrevidx(ls, s) ==
  IF s.gres.some
  THEN IF s.gres.sr.nextline = NoLine
       THEN ReturnCard(s, s.gres.sr.skip_end, s.gres.sr.nextline)
       ELSE [s EXCEPT !.nextline = s.gres.sr.nextline, !.pc = "rows"]
  ELSE [s EXCEPT !.pc = "rows"]

\* CardLine::Ges: what skip_card does with the result of skip_ges
GesDone(ls, s) ==
  IF s.gres.some
  THEN IF s.gres.sr.nextline = NoLine
       THEN ReturnCard(s, s.gres.sr.skip_end, s.gres.sr.nextline)
       ELSE [s EXCEPT !.previdx = s.gres.sr.skip_end,
                      !.nextline = s.gres.sr.nextline, !.pc = "rows"]
  ELSE [s EXCEPT !.pc = "rows"]

\* A skip_card_gather that returns after the first card.
GatherIterStopsAtOnce(ls, s) == [s EXCEPT !.pc = "fold_done"]

\* skip_card_gather: one test of its while loop, after a skip_card returned
GatherIter(ls, s) ==
  IF IsKeywordLine(ls, s.res.nextline) /\ Kw(ls, s.res.nextline) = s.card
  THEN [s EXCEPT !.skipline = s.res.nextline, !.pc = "skip_card"]
  ELSE [s EXCEPT !.pc = "fold_done"]

\* Folds::checked_insert: append the fold when it starts after the end of
\* the last one, fail otherwise.
CheckedInsertOk(folds, start, end) ==
  folds = <<>> \/ folds[Len(folds)].end < start

CheckedInsert(folds, start, end, kw) ==
  Append(folds, [start |-> start, end |-> end, kw |-> kw])

\* A parse_from_iter that closes the fold at the line before nextline.
FoldDoneBeforeNextline(ls, s) ==
  LET foldstart == s.kwline
      foldend == IF s.res.nextline = NoLine THEN s.hi - 1
                 ELSE s.res.nextline - 1
  IN IF ~CheckedInsertOk(s.folds, foldstart, foldend)
     THEN [s EXCEPT !.err = TRUE, !.pc = "done"]
     ELSE LET s1 == [s EXCEPT !.folds = CheckedInsert(@, foldstart, foldend,
                                                     Kw(ls, foldstart))]
          IN IF IsKeywordLine(ls, s.res.nextline)
             THEN [s1 EXCEPT !.kwline = s.res.nextline, !.pc = "skip_fold"]
             ELSE [s1 EXCEPT !.pc = "skip_to_next_keyword"]

\* A parse_from_iter that starts the fold at the keyword line of the last
\* card skip_fold has walked.
FoldDoneFromSkipline(ls, s) ==
  LET foldstart == s.skipline
      foldend == s.res.skip_end
  IN IF ~CheckedInsertOk(s.folds, foldstart, foldend)
     THEN [s EXCEPT !.err = TRUE, !.pc = "done"]
     ELSE LET s1 == [s EXCEPT !.folds = CheckedInsert(@, foldstart, foldend,
                                                     Kw(ls, foldstart))]
          IN IF IsKeywordLine(ls, s.res.nextline)
             THEN [s1 EXCEPT !.kwline = s.res.nextline, !.pc = "skip_fold"]
             ELSE [s1 EXCEPT !.pc = "skip_to_next_keyword"]

\* parse_from_iter, lines 208-218: close the fold, go on with the next
\* keyword line.
FoldDone(ls, s) ==
  LET foldstart == s.kwline
      foldend == s.res.skip_end
  IN IF ~CheckedInsertOk(s.folds, foldstart, foldend)
     THEN [s EXCEPT !.err = TRUE, !.pc = "done"]
     ELSE LET s1 == [s EXCEPT !.folds = CheckedInsert(@, foldstart, foldend,
                                                     Kw(ls, foldstart))]
          IN IF IsKeywordLine(ls, s.res.nextline)
             THEN [s1 EXCEPT !.kwline = s.res.nextline, !.pc = "skip_fold"]
             ELSE [s1 EXCEPT !.pc = "skip_to_next_keyword"]

\* The row loop of skip_card takes its next row.
RowStep(ls, s) ==
  CASE NextRow(s).kind = "Provides" -> RowProvides(ls, s)
    [] NextRow(s).kind = "Ges" -> RowGes(ls, s)
    [] NextRow(s).kind = "Cells" -> RowCells(ls, s)
    [] NextRow(s).kind = "Optional" -> RowOptional(ls, s)
    [] NextRow(s).kind = "Repeat" -> RowRepeat(ls, s)
    [] NextRow(s).kind = "Block" -> RowBlock(ls, s)
    [] NextRow(s).kind = "OptionalBlock" -> RowOptionalBlock(ls, s)

\* The step the walker takes from state s.
Step(ls, s) ==
  CASE s.pc = "skip_to_next_keyword" -> SkipToNextKeyword(ls, s)
    [] s.pc = "skip_fold" -> SkipFold(ls, s)
    [] s.pc = "skip_card" -> SkipCardEntry(ls, s)
    [] s.pc = "rows" ->
         IF RowsLeave(ls, s) THEN RowsEnd(ls, s) ELSE RowStep(ls, s)
    [] s.pc = "repeat" -> RepeatIter(ls, s)
    [] s.pc = "block" -> BlockIter(ls, s)
    [] s.pc = "block_advance" -> BlockAdvance(ls, s)
    [] s.pc = "optblock" -> OptBlockIter(ls, s)
    [] s.pc = "ges_while" -> GesWhile(ls, s)
    [] s.pc = "ges_done" -> GesDone(ls, s)
    [] s.pc = "skip_card_gather" -> GatherIter(ls, s)
    [] s.pc = "fold_done" -> FoldDone(ls, s)

\* The walker run to its end.
RECURSIVE Run(_, _)
Run(ls, s) ==
  With(s, LAMBDA t : IF t.pc = "done" THEN t ELSE Run(ls, Step(ls, t)))

\* BufData::parse_from_iter over the lines lo..hi-1 of ls
ParseFromIter(ls, lo, hi) == Run(ls, WInit(lo, hi))

-----------------------------------------------------------------------------
(* The fold and highlight containers and the orchestrator (BufData)          *)

\* The order of the fold container: by start, then by end (the container is
\* a map keyed by the range [start, end]).
FoldLess(f, g) == f.start < g.start \/ (f.start = g.start /\ f.end < g.end)

\* The folds of the set fs, one per range, in the order of the container.
RECURSIVE SortFolds(_)
SortFolds(fs) ==
  IF fs = {} THEN <<>>
  ELSE LET f == CHOOSE x \in fs : \A y \in fs : y = x \/ FoldLess(x, y)
       IN <<f>> \o SortFolds(fs \ {f})

Range(seq) == {seq[i] : i \in 1..Len(seq)}

ShiftFold(f, d) == [f EXCEPT !.start = @ + d, !.end = @ + d]

\* A splice that moves the folds behind the range by one line too many.
FoldsSpliceShiftsTooFar(folds, newfolds, first_line, last_line, line_delta) ==
  LET before == {f \in Range(folds) : f.start < first_line}
      after == {ShiftFold(f, line_delta + 1) :
                  f \in {g \in Range(folds) : g.start >= last_line}}
  IN SortFolds(before \cup after \cup Range(newfolds))

\* Folds::splice(newfolds, first_line, last_line, line_delta): the folds that
\* start in first_line..last_line-1 are replaced by newfolds, the folds that
\* start at last_line or later are moved by line_delta, the folds that start
\* before first_line stay.  A new fold takes the place of an old one with the
\* same range.
FoldsSplice(folds, newfolds, first_line, last_line, line_delta) ==
  LET before == {f \in Range(folds) : f.start < first_line}
      after == {ShiftFold(f, line_delta) :
                  f \in {g \in Range(folds) : g.start >= last_line}}
      new == Range(newfolds)
      SameRange(f, g) == f.start = g.start /\ f.end = g.end
      old == {f \in before \cup after : \A g \in new : ~SameRange(f, g)}
  IN SortFolds(old \cup new)

ShiftHl(h, d) == [h EXCEPT !.line = @ + d]

\* Highlights::splice(newhls, first_line, last_line, line_delta): the entries
\* of the lines first_line..last_line-1 are replaced by newhls, the entries of
\* later lines are moved by line_delta, the entries of earlier lines stay.
HlSplice(hls, newhls, first_line, last_line, line_delta) ==
  LET before == SelectSeq(hls, LAMBDA h : h.line < first_line)
      after == SelectSeq(hls, LAMBDA h : h.line >= last_line)
  IN before \o newhls
       \o [i \in 1..Len(after) |-> ShiftHl(after[i], line_delta)]

\* Folds::recreate_level2: one level-2 fold for every run of at least two
\* consecutive level-1 folds with the same keyword, put in by checked_insert.
\* acc is the container built so far, cur the run being gathered.
RECURSIVE Level2From(_, _, _, _)
Level2From(folds, i, cur, acc) ==
  LET Close == IF cur.n >= 2
               THEN IF CheckedInsertOk(acc.folds, cur.start, cur.end)
                    THEN [acc EXCEPT !.folds = CheckedInsert(@, cur.start,
                                                             cur.end, cur.kw)]
                    ELSE [acc EXCEPT !.ok = FALSE]
               ELSE acc
  IN IF ~acc.ok THEN acc
     ELSE IF i > Len(folds) THEN Close
     ELSE IF folds[i].kw = cur.kw
          THEN Level2From(folds, i + 1,
                          [cur EXCEPT !.end = folds[i].end, !.n = @ + 1], acc)
          ELSE Level2From(folds, i + 1,
                          [start |-> folds[i].start, end |-> folds[i].end,
                           kw |-> folds[i].kw, n |-> 1], Close)

RecreateLevel2(folds) ==
  Level2From(folds, 1, [start |-> 0, end |-> 0, kw |-> "None", n |-> 0],
             [ok |-> TRUE, folds |-> <<>>])

\* BufData::regenerate on the lines ls: Err when the parse fails.
Regenerate(ls) ==
  With(ParseFromIter(ls, 0, Len(ls)), LAMBDA p :
    [ok |-> ~p.err,
     bd |-> [folds |-> p.folds,
             folds_level2 |-> IF p.err THEN <<>>
                              ELSE RecreateLevel2(p.folds).folds,
             highlights |-> p.hls]])

\* Lines::update and Keywords::update: the lines firstline..lastline-1 are
\* replaced by linedata.
LinesUpdate(ls, firstline, lastline, linedata) ==
  SubSeq(ls, 1, firstline) \o linedata \o SubSeq(ls, lastline + 1, Len(ls))

\* Keywords::first_before(n): the nearest keyword line at or before line n,
\* the first line when there is none.
FirstBefore(ls, n) ==
  LET cand == {k \in 0..(Len(ls) - 1) : k <= n /\ IsKeywordLine(ls, k)
                                         /\ Kw(ls, k) # "Comment"}
  IN IF cand = {} THEN 0 ELSE CHOOSE k \in cand : \A m \in cand : m <= k

\* Keywords::first_after(n): the nearest keyword line at or after line n, the
\* end of the buffer when there is none.
FirstAfter(ls, n) ==
  LET cand == {k \in 0..(Len(ls) - 1) : k >= n /\ IsKeywordLine(ls, k)
                                         /\ Kw(ls, k) # "Comment"}
  IN IF cand = {} THEN Len(ls) ELSE CHOOSE k \in cand : \A m \in cand : k <= m

\* An update that splices the folds and leaves the level-2 folds as they were.
BufDataUpdateKeepsLevel2(ls, b, firstline, lastline, linedata) ==
  LET added == Len(linedata) - (lastline - firstline)
  IN With(LinesUpdate(ls, firstline, lastline, linedata), LAMBDA newls :
       LET first == FirstBefore(newls, firstline)
           lst == FirstAfter(newls, lastline + added)
       IN With(ParseFromIter(newls, first, lst), LAMBDA p :
            IF p.err
            THEN [ok |-> FALSE, lines |-> newls, bd |-> b, first |-> first,
                  last |-> lst]
            ELSE [ok |-> TRUE, lines |-> newls,
                  bd |-> [folds |-> FoldsSplice(b.folds, p.folds, firstline,
                                                lastline, added),
                          folds_level2 |-> b.folds_level2,
                          highlights |-> HlSplice(b.highlights, p.hls,
                                                  firstline, lastline, added)],
                  first |-> first, last |-> lst]))

\* An update that returns the failure of recreate_level2 and leaves the
\* containers as they were.
BufDataUpdateLevel2Fatal(ls, b, firstline, lastline, linedata) ==
  LET added == Len(linedata) - (lastline - firstline)
  IN With(LinesUpdate(ls, firstline, lastline, linedata), LAMBDA newls :
       LET first == FirstBefore(newls, firstline)
           lst == FirstAfter(newls, lastline + added)
       IN With(ParseFromIter(newls, first, lst), LAMBDA p :
            With(FoldsSplice(b.folds, p.folds, firstline, lastline, added),
                 LAMBDA folds :
                   IF p.err \/ ~RecreateLevel2(folds).ok
                   THEN [ok |-> FALSE, lines |-> newls, bd |-> b,
                         first |-> first, last |-> lst]
                   ELSE [ok |-> TRUE, lines |-> newls,
                         bd |-> [folds |-> folds,
                                 folds_level2 |-> RecreateLevel2(folds).folds,
                                 highlights |-> HlSplice(b.highlights, p.hls,
                                                         firstline, lastline,
                                                         added)],
                         first |-> first, last |-> lst])))

\* BufData::update(firstline, lastline, linedata) on the lines ls and the
\* containers b: the new lines, the new containers and whether Ok was
\* returned.
BufDataUpdate(ls, b, firstline, lastline, linedata) ==
  LET added == Len(linedata) - (lastline - firstline)
  IN With(LinesUpdate(ls, firstline, lastline, linedata), LAMBDA newls :
       LET first == FirstBefore(newls, firstline)
           lst == FirstAfter(newls, lastline + added)
       IN With(ParseFromIter(newls, first, lst), LAMBDA p :
            IF p.err
            THEN [ok |-> FALSE, lines |-> newls, bd |-> b, first |-> first,
                  last |-> lst]
            ELSE With(FoldsSplice(b.folds, p.folds, firstline, lastline,
                                  added),
                      LAMBDA folds :
                        [ok |-> TRUE, lines |-> newls,
                         bd |-> [folds |-> folds,
                                 folds_level2 |-> RecreateLevel2(folds).folds,
                                 highlights |-> HlSplice(b.highlights, p.hls,
                                                         firstline, lastline,
                                                         added)],
                         first |-> first, last |-> lst])))

-----------------------------------------------------------------------------
(* SpecSplice: Folds::splice and Highlights::splice applied once to any      *)
(* containers over the lines 0..MaxSpliceLine-1.                            *)

\* The fold containers with all folds in the lines lo..hi-1: sorted,
\* pairwise disjoint folds of the keywords NODE and MASS.
RECURSIVE FoldLists(_, _)
FoldLists(lo, hi) ==
  {<<>>} \cup
  UNION {UNION {{<<[start |-> a, end |-> b, kw |-> k]>> \o rest :
                   rest \in FoldLists(b + 1, hi)} :
                  b \in a..(hi - 1), k \in {"NODE", "MASS"}} :
           a \in lo..(hi - 1)}

\* The highlights a parse stores along with the folds: an entry for the
\* keyword line of every fold.
HlsOf(folds) ==
  [i \in 1..Len(folds) |->
     [line |-> folds[i].start, card |-> folds[i].kw, row |-> 1,
      text |-> folds[i].kw]]

\* The folds of the container are well-formed and none of them lies across
\* line n: callers choose the range of a splice on the boundaries of cards.
NoFoldAcross(folds, n) ==
  \A i \in 1..Len(folds) :
    /\ folds[i].start <= folds[i].end
    /\ ~(folds[i].start < n /\ n <= folds[i].end)

InitSplice ==
  /\ lines = <<>>
  /\ w = WIdle
  /\ \E folds \in FoldLists(0, MaxSpliceLine) :
       bd = [folds |-> folds, folds_level2 |-> <<>>,
             highlights |-> HlsOf(folds)]
  /\ last = [op |-> "none"]
  /\ ev = NoEvents

\* self.folds.splice(newfolds, first_line, last_line, line_delta) and
\* self.highlights.splice(newhls, first_line, last_line, line_delta), with
\* new sub-containers for the lines first_line..last_line+line_delta-1.
Splice(newfolds, first_line, last_line, line_delta) ==
  /\ NoFoldAcross(bd.folds, first_line)
  /\ NoFoldAcross(bd.folds, last_line)
  /\ bd' = [folds |-> FoldsSplice(bd.folds, newfolds, first_line, last_line,
                                  line_delta),
            folds_level2 |-> bd.folds_level2,
            highlights |-> HlSplice(bd.highlights, HlsOf(newfolds),
                                    first_line, last_line, line_delta)]
  /\ last' = [op |-> "splice", before |-> bd, newfolds |-> newfolds,
              newhls |-> HlsOf(newfolds), first_line |-> first_line,
              last_line |-> last_line, line_delta |-> line_delta]
  /\ UNCHANGED <<lines, w, ev>>

DoSplice ==
  /\ last.op = "none"
  /\ \E first_line \in 0..MaxSpliceLine :
     \E last_line \in first_line..MaxSpliceLine :
      \E line_delta \in {-1, 0, 1} :
        /\ last_line + line_delta >= first_line
        /\ NoFoldAcross(bd.folds, first_line)
        /\ NoFoldAcross(bd.folds, last_line)
        /\ \E newfolds \in FoldLists(first_line, last_line + line_delta) :
             Splice(newfolds, first_line, last_line, line_delta)

NextSplice == DoSplice

SpecSplice == InitSplice /\ [][NextSplice]_vars

-----------------------------------------------------------------------------
(* SpecWalk: a full parse of any buffer of at most MaxLen lines, taken one   *)
(* loop iteration at a time.                                                *)

\* The buffers the model looks at.
Buffers == UNION {[1..n -> Texts] : n \in 0..MaxLen}

\* BufData with no folds and no highlights.
NoBufData == [folds |-> <<>>, folds_level2 |-> <<>>, highlights |-> <<>>]

NoLast == [op |-> "none"]

InitWalk ==
  /\ lines \in Buffers
  /\ w = WInit(0, Len(lines))
  /\ bd = NoBufData
  /\ last = NoLast
  /\ ev = NoEvents

WalkTo(s) == w' = s /\ UNCHANGED <<lines, bd, last, ev>>

WSkipToNextKeyword ==
  w.pc = "skip_to_next_keyword" /\ WalkTo(SkipToNextKeyword(lines, w))

WSkipFold == w.pc = "skip_fold" /\ WalkTo(SkipFold(lines, w))

WSkipCardEntry == w.pc = "skip_card" /\ WalkTo(SkipCardEntry(lines, w))

WRowsEnd == w.pc = "rows" /\ RowsLeave(lines, w) /\ WalkTo(RowsEnd(lines, w))

AtRow(kind) ==
  w.pc = "rows" /\ ~RowsLeave(lines, w) /\ NextRow(w).kind = kind

WRowProvides == AtRow("Provides") /\ WalkTo(RowProvides(lines, w))

WRowGes == AtRow("Ges") /\ WalkTo(RowGes(lines, w))

WRowCells == AtRow("Cells") /\ WalkTo(RowCells(lines, w))

WRowOptional == AtRow("Optional") /\ WalkTo(RowOptional(lines, w))

WRowRepeat == AtRow("Repeat") /\ WalkTo(RowRepeat(lines, w))

WRowBlock == AtRow("Block") /\ WalkTo(RowBlock(lines, w))

WRowOptionalBlock ==
  AtRow("OptionalBlock") /\ WalkTo(RowOptionalBlock(lines, w))

WRepeatIter == w.pc = "repeat" /\ WalkTo(RepeatIter(lines, w))

WBlockIter == w.pc = "block" /\ WalkTo(BlockIter(lines, w))

WBlockAdvance == w.pc = "block_advance" /\ WalkTo(BlockAdvance(lines, w))

WOptBlockIter == w.pc = "optblock" /\ WalkTo(OptBlockIter(lines, w))

WGesWhile == w.pc = "ges_while" /\ WalkTo(GesWhile(lines, w))

WGesDone == w.pc = "ges_done" /\ WalkTo(GesDone(lines, w))

WGatherIter == w.pc = "skip_card_gather" /\ WalkTo(GatherIter(lines, w))

WFoldDone == w.pc = "fold_done" /\ WalkTo(FoldDone(lines, w))

NextWalk ==
  \/ WSkipToNextKeyword
  \/ WSkipFold
  \/ WSkipCardEntry
  \/ WRowsEnd
  \/ WRowProvides
  \/ WRowGes
  \/ WRowCells
  \/ WRowOptional
  \/ WRowRepeat
  \/ WRowBlock
  \/ WRowOptionalBlock
  \/ WRepeatIter
  \/ WBlockIter
  \/ WBlockAdvance
  \/ WOptBlockIter
  \/ WGesWhile
  \/ WGesDone
  \/ WGatherIter
  \/ WFoldDone

SpecWalk == InitWalk /\ [][NextWalk]_vars

\* The scheduling of the walker: it is one sequential program, so a step
\* that can be taken is taken.
SpecWalkFair == SpecWalk /\ WF_vars(NextWalk)

-----------------------------------------------------------------------------
(* SpecRows: a full parse of any buffer of at most MaxRowLen lines with the *)
(* texts RowTexts, whose cards have the rows Provides, Optional and Repeat. *)

\* Longest buffer of SpecRows.
MaxRowLen == 5

InitRows ==
  /\ lines \in UNION {[1..n -> RowTexts] : n \in 0..MaxRowLen}
  /\ w = WInit(0, Len(lines))
  /\ bd = NoBufData
  /\ last = NoLast
  /\ ev = NoEvents

\* The steps of the walker that the cards NODE, OPN and REP lead to.
NextRows ==
  \/ WSkipToNextKeyword
  \/ WSkipFold
  \/ WSkipCardEntry
  \/ WRowsEnd
  \/ WRowProvides
  \/ WRowOptional
  \/ WRowRepeat
  \/ WRepeatIter
  \/ WGatherIter
  \/ WFoldDone

SpecRows == InitRows /\ [][NextRows]_vars

-----------------------------------------------------------------------------
(* Spec: the orchestrator.  A buffer is parsed in full, then edited by       *)
(* updates; a full parse can be asked for at any time.  last records the    *)
(* last operation, whether every operation since the last full parse (that  *)
(* parse included) returned Ok, and the number of updates since then.       *)

\* The texts the buffers of the orchestrator are made of.
EditTexts == {"#", "x", "PART", "END", "NODE", "MASS", "BLK"}

\* The record of the last call on the BufData: the operation, whether it
\* returned Ok (callok), whether it and all updates since the last regenerate
\* returned Ok (ok), the number n of updates since then, and whether the
\* call was an update with firstline = lastline and no new lines (noop).
LastCall(op, callok, ok, n, firstline, lastline, linedata) ==
  [op |-> op, callok |-> callok, ok |-> ok, n |-> n,
   noop |-> (op = "update" /\ firstline = lastline /\ linedata = <<>>)]

SeqsUpTo(n) == UNION {[1..k -> EditTexts] : k \in 0..n}

Init ==
  /\ lines \in SeqsUpTo(MaxBuf)
  /\ \E r \in {Regenerate(lines)} :
       /\ bd = r.bd
       /\ last = LastCall("regenerate", r.ok, r.ok, 0, 0, 0, <<>>)
  /\ w = WIdle
  /\ ev = NoEvents

\* BufData::update(firstline, lastline, linedata)
Update(firstline, lastline, linedata) ==
  /\ last.n < MaxUpdates
  /\ Len(lines) + Len(linedata) - (lastline - firstline) <= MaxBuf
  /\ \E u \in {BufDataUpdate(lines, bd, firstline, lastline, linedata)} :
       /\ lines' = u.lines
       /\ bd' = u.bd
       /\ last' = LastCall("update", u.ok, last.ok /\ u.ok, last.n + 1,
                           firstline, lastline, linedata)
  /\ UNCHANGED <<w, ev>>

DoUpdate ==
  \E firstline \in 0..Len(lines) :
    \E lastline \in firstline..Len(lines) :
      \E linedata \in SeqsUpTo(MaxData) :
        Update(firstline, lastline, linedata)

\* BufData::regenerate
DoRegenerate ==
  /\ last.op = "update"
  /\ \E r \in {Regenerate(lines)} :
       /\ bd' = r.bd
       /\ last' = LastCall("regenerate", r.ok, r.ok, 0, 0, 0, <<>>)
  /\ UNCHANGED <<lines, w, ev>>

Next ==
  \/ DoUpdate
  \/ DoRegenerate

Spec == Init /\ [][Next]_vars

-----------------------------------------------------------------------------
(* SpecEvents: the main loop (Event::event_loop) receiving the events of a  *)
(* queue one by one.                                                        *)

\* Longest queue of events the loop is given.
MaxEvents == 3

\* A packing that keeps the 0-based line numbers of the containers.
PackupAllFoldsZeroBased(b) ==
  LET all == b.folds \o b.folds_level2
  IN [i \in 1..Len(all) |-> <<all[i].start, all[i].end, all[i].kw>>]

\* BufData::packup_all_folds: the level-1 folds chained with the level-2
\* folds, each as (start + 1, end + 1, text).
PackupAllFolds(b) ==
  LET all == b.folds \o b.folds_level2
  IN [i \in 1..Len(all) |-> <<all[i].start + 1, all[i].end + 1, all[i].kw>>]

\* The variants of Event.
LinesEvent(changedtick, firstline, lastline, linedata) ==
  [type |-> "LinesEvent", changedtick |-> changedtick,
   firstline |-> firstline, lastline |-> lastline, linedata |-> linedata]

ChangedTickEvent == [type |-> "ChangedTickEvent"]

DetachEvent == [type |-> "DetachEvent"]

RefreshFolds == [type |-> "RefreshFolds"]

HighlightRegion(firstline, lastline) ==
  [type |-> "HighlightRegion", firstline |-> firstline, lastline |-> lastline]

Quit == [type |-> "Quit"]

\* The buffers the editor sends as a whole, or the file holds.
FullBuffers == {<<"NODE", "NODE", "MASS">>, <<"MASS", "x">>}

\* The edits (firstline, lastline, linedata) the editor reports.
Edits == {<<0, 0, <<"NODE">>>>, <<0, 1, <<>>>>, <<1, 2, <<"x">>>>}

\* The line ranges of the HighlightRegion events: <<firstline, lastline>>.
Regions == {<<0, 0>>, <<0, 1>>, <<1, 1>>, <<1, 3>>}

\* The events the handler sends to the loop.
Events ==
  {LinesEvent(1, 0, -1, d) : d \in FullBuffers}
    \cup {LinesEvent(1, e[1], e[2], e[3]) : e \in Edits}
    \cup {LinesEvent(0, 0, -1, <<"NODE">>), LinesEvent(1, -1, 0, <<>>)}
    \cup {HighlightRegion(r[1], r[2]) : r \in Regions}
    \cup {ChangedTickEvent, DetachEvent, RefreshFolds, Quit}

\* The edits of the queue q, from its i-th event on, lie inside the buffer
\* the loop holds when it receives them; len is the length of the buffer
\* before the i-th event.
RECURSIVE ValidQueue(_, _, _)
ValidQueue(q, i, len) ==
  IF i > Len(q) THEN TRUE
  ELSE IF q[i].type # "LinesEvent" THEN ValidQueue(q, i + 1, len)
  ELSE IF q[i].changedtick = 0 THEN ValidQueue(q, i + 1, len)
  ELSE IF q[i].lastline = -1 THEN ValidQueue(q, i + 1, Len(q[i].linedata))
  ELSE IF q[i].firstline < 0 THEN ValidQueue(q, i + 1, len)
  ELSE /\ q[i].firstline <= q[i].lastline
       /\ q[i].lastline <= len
       /\ ValidQueue(q, i + 1, len + Len(q[i].linedata)
                                  - (q[i].lastline - q[i].firstline))

Queues == UNION {[1..n -> Events] : n \in 0..MaxEvents}

\* recreate_all on the lines lo..hi-1 of ls returns a Result: Ok with the
\* folds and highlights of the parse, or Err.
RecreateAll(ls, lo, hi) ==
  {With(ParseFromIter(ls, lo, hi), LAMBDA p :
     [ok |-> ~p.err, folds |-> p.folds, highlights |-> p.hls]),
   [ok |-> FALSE, folds |-> <<>>, highlights |-> <<>>]}

\* The state of event_loop when it enters the loop: without a file the
\* containers are empty, with a file they hold its parse and the folds were
\* sent once.  all is the sequence of events the handler thread sends, put
\* the number of them it has put on the channel, handled the number of
\* events the loop has received so far, violation whether the parse of an
\* incremental update has failed, closed whether the sender of the channel
\* is gone, warned whether recv has returned an error.
InitEvents ==
  /\ w = WIdle
  /\ last = NoLast
  /\ \E file \in {[some |-> FALSE, lines |-> <<>>]}
                   \cup {[some |-> TRUE, lines |-> b] : b \in FullBuffers} :
       /\ lines = file.lines
       /\ bd = IF file.some THEN Regenerate(lines).bd ELSE NoBufData
       /\ \E q \in Queues :
            /\ ValidQueue(q, 1, Len(lines))
            /\ ev = [status |-> "running", all |-> q, put |-> 0,
                     handled |-> 0,
                     nsent |-> IF file.some THEN 1 ELSE 0,
                     sent |-> IF file.some THEN PackupAllFolds(bd) ELSE <<>>,
                     hl |-> <<>>, violation |-> FALSE, closed |-> FALSE,
                     warned |-> FALSE]

\* The handler thread puts its next event on the channel.  The thread ends
\* with the process, which exits when event_loop has returned.
HandlerSend ==
  /\ ev.status = "running"
  /\ ~ev.closed
  /\ ev.put < Len(ev.all)
  /\ ev' = [ev EXCEPT !.put = @ + 1]
  /\ UNCHANGED <<lines, w, bd, last>>

\* The handler thread ends, as it does when the editor closes the
\* connection: the only sender of the channel is dropped, and the events not
\* yet sent never are.
HandlerGone ==
  /\ ev.status = "running"
  /\ ~ev.closed
  /\ ev' = [ev EXCEPT !.closed = TRUE]
  /\ UNCHANGED <<lines, w, bd, last>>

\* receiver.recv() returns Err: the channel is empty and its sender is gone.
Disconnected == ev.status = "running" /\ ev.closed /\ ev.handled = ev.put

\* A loop that returns when recv fails.
OnRecvErrorReturns ==
  /\ Disconnected
  /\ ev' = [ev EXCEPT !.warned = TRUE, !.status = "RecvErr"]
  /\ UNCHANGED <<lines, w, bd, last>>

\* Err(e) from recv: a warning is logged and the loop receives again.
OnRecvError ==
  /\ Disconnected
  /\ ev' = [ev EXCEPT !.warned = TRUE]
  /\ UNCHANGED <<lines, w, bd, last>>

\* receiver.recv() returns the oldest event of the channel.
Receiving == ev.status = "running" /\ ev.handled < ev.put

Cur == ev.all[ev.handled + 1]

\* An event that stays the oldest of the channel after it was received.
NotTaken == ev

\* The event received is taken off the channel.
Taken == [ev EXCEPT !.handled = @ + 1]

\* return Err(..) out of the loop
ReturnErr(e) == [Taken EXCEPT !.status = e]

\* BufData::resend_all_folds: the packed folds go to the editor; the call
\* fails when the editor does not answer.
ResendAllFolds(nvim_ok) ==
  IF nvim_ok
  THEN ev' = [Taken EXCEPT !.nsent = @ + 1, !.sent = PackupAllFolds(bd')]
  ELSE ev' = ReturnErr("NvimErr")

\* LinesEvent with changedtick == 0: continue
LinesEventTickZero ==
  /\ Receiving
  /\ Cur.type = "LinesEvent"
  /\ Cur.changedtick = 0
  /\ ev' = Taken
  /\ UNCHANGED <<lines, w, bd, last>>

\* LinesEvent with lastline == -1: the whole buffer is replaced, parsed and
\* its folds are sent.
LinesEventFull ==
  /\ Receiving
  /\ Cur.type = "LinesEvent"
  /\ Cur.changedtick # 0
  /\ Cur.lastline = -1
  /\ lines' = Cur.linedata
  /\ \E r \in RecreateAll(lines', 0, Len(lines')) :
       IF r.ok
       THEN /\ bd' = [folds |-> r.folds,
                      folds_level2 |-> RecreateLevel2(r.folds).folds,
                      highlights |-> r.highlights]
            /\ \E nvim_ok \in BOOLEAN : ResendAllFolds(nvim_ok)
       ELSE /\ bd' = NoBufData
            /\ ev' = ReturnErr("ParseErr")
  /\ UNCHANGED <<w, last>>

\* An incremental update that sends the folds as a full rebuild does.
LinesEventIncrementalSends ==
  /\ Receiving
  /\ Cur.type = "LinesEvent"
  /\ Cur.changedtick # 0
  /\ Cur.lastline >= 0 /\ Cur.firstline >= 0
  /\ lines' = LinesUpdate(lines, Cur.firstline, Cur.lastline, Cur.linedata)
  /\ \E added \in {Len(Cur.linedata) - (Cur.lastline - Cur.firstline)} :
     \E first \in {FirstBefore(lines', Cur.firstline)} :
     \E lst \in {FirstAfter(lines', Cur.lastline + added)} :
     \E tmp_folds \in RecreateAll(lines', first, lst) :
       IF ~tmp_folds.ok
       THEN /\ bd' = bd
            /\ ev' = [ReturnErr("ParseErr") EXCEPT !.violation = TRUE]
       ELSE \E nvim_ok \in BOOLEAN :
              IF ~nvim_ok
              THEN /\ bd' = bd
                   /\ ev' = ReturnErr("NvimErr")
              ELSE /\ \E folds \in {FoldsSplice(bd.folds, tmp_folds.folds,
                                                first, lst, added)} :
                        bd' = [folds |-> folds,
                               folds_level2 |-> RecreateLevel2(folds).folds,
                               highlights |->
                                 HlSplice(bd.highlights,
                                          tmp_folds.highlights, first, lst,
                                          added)]
                   /\ ResendAllFolds(TRUE)
  /\ UNCHANGED <<w, last>>

\* LinesEvent with nonnegative firstline and lastline: the lines are
\* updated, the lines between the surrounding keywords are parsed afresh
\* and highlighted, and the result is spliced into the containers.
LinesEventIncremental ==
  /\ Receiving
  /\ Cur.type = "LinesEvent"
  /\ Cur.changedtick # 0
  /\ Cur.lastline >= 0 /\ Cur.firstline >= 0
  /\ lines' = LinesUpdate(lines, Cur.firstline, Cur.lastline, Cur.linedata)
  /\ \E added \in {Len(Cur.linedata) - (Cur.lastline - Cur.firstline)} :
     \E first \in {FirstBefore(lines', Cur.firstline)} :
     \E lst \in {FirstAfter(lines', Cur.lastline + added)} :
     \E tmp_folds \in RecreateAll(lines', first, lst) :
       IF ~tmp_folds.ok
       THEN /\ bd' = bd
            /\ ev' = [ReturnErr("ParseErr") EXCEPT !.violation = TRUE]
       ELSE \E nvim_ok \in BOOLEAN :
              IF ~nvim_ok
              THEN /\ bd' = bd
                   /\ ev' = ReturnErr("NvimErr")
              ELSE /\ \E folds \in {FoldsSplice(bd.folds, tmp_folds.folds,
                                                first, lst, added)} :
                        bd' = [folds |-> folds,
                               folds_level2 |-> RecreateLevel2(folds).folds,
                               highlights |->
                                 HlSplice(bd.highlights,
                                          tmp_folds.highlights, first, lst,
                                          added)]
                   /\ ev' = Taken
  /\ UNCHANGED <<w, last>>

\* LinesEvent with a negative line number other than lastline == -1: an
\* error is logged.
LinesEventNegative ==
  /\ Receiving
  /\ Cur.type = "LinesEvent"
  /\ Cur.changedtick # 0
  /\ Cur.lastline # -1
  /\ ~(Cur.lastline >= 0 /\ Cur.firstline >= 0)
  /\ ev' = Taken
  /\ UNCHANGED <<lines, w, bd, last>>

\* RefreshFolds
OnRefreshFolds ==
  /\ Receiving
  /\ Cur.type = "RefreshFolds"
  /\ bd' = bd
  /\ \E nvim_ok \in BOOLEAN : ResendAllFolds(nvim_ok)
  /\ UNCHANGED <<lines, w, last>>

\* A HighlightRegion that sends the lines up to the keyword line at or after
\* lastline, that line left out.
OnHighlightRegionEndNotRaised ==
  /\ Receiving
  /\ Cur.type = "HighlightRegion"
  /\ \E fl \in {FirstBefore(lines, Cur.firstline)} :
     \E ll0 \in {FirstAfter(lines, Cur.lastline)} :
     \E ll \in {ll0} :
     \E nvim_ok \in BOOLEAN :
       IF nvim_ok
       THEN ev' = [Taken EXCEPT !.hl = <<fl, ll>>]
       ELSE ev' = ReturnErr("NvimErr")
  /\ UNCHANGED <<lines, w, bd, last>>

\* HighlightRegion: the highlights between the keyword at or before
\* firstline and the keyword at or after lastline are sent.
OnHighlightRegion ==
  /\ Receiving
  /\ Cur.type = "HighlightRegion"
  /\ \E fl \in {FirstBefore(lines, Cur.firstline)} :
     \E ll0 \in {FirstAfter(lines, Cur.lastline)} :
     \E ll \in {IF ll0 = Cur.lastline THEN ll0 + 1 ELSE ll0} :
     \E nvim_ok \in BOOLEAN :
       IF nvim_ok
       THEN ev' = [Taken EXCEPT !.hl = <<fl, ll>>]
       ELSE ev' = ReturnErr("NvimErr")
  /\ UNCHANGED <<lines, w, bd, last>>

\* A loop that takes Quit like any other event.
OnQuitContinues ==
  /\ Receiving
  /\ Cur.type = "Quit"
  /\ ev' = Taken
  /\ UNCHANGED <<lines, w, bd, last>>

\* Quit: break, and event_loop returns Ok(()).
OnQuit ==
  /\ Receiving
  /\ Cur.type = "Quit"
  /\ ev' = [Taken EXCEPT !.status = "Ok"]
  /\ UNCHANGED <<lines, w, bd, last>>

\* Any other event: a warning is logged.
OnOther ==
  /\ Receiving
  /\ Cur.type \in {"ChangedTickEvent", "DetachEvent"}
  /\ ev' = Taken
  /\ UNCHANGED <<lines, w, bd, last>>

NextEvents ==
  \/ HandlerSend
  \/ HandlerGone
  \/ OnRecvError
  \/ LinesEventTickZero
  \/ LinesEventFull
  \/ LinesEventIncremental
  \/ LinesEventNegative
  \/ OnRefreshFolds
  \/ OnHighlightRegion
  \/ OnQuit
  \/ OnOther

SpecEvents == InitEvents /\ [][NextEvents]_vars

-----------------------------------------------------------------------------
(* SpecEdit: the orchestrator on buffers of MASS and NODE cards, with a     *)
(* record of the last call that keeps its arguments and the containers it   *)
(* found.                                                                   *)

\* Longest buffer of SpecEdit and most updates between two full parses.
MaxEditBuf == 3

MaxEdits == 2

\* The texts of the lines of SpecEdit.
CardTexts == {"x", "NODE", "MASS"}

CardBuffers == UNION {[1..n -> CardTexts] : n \in 0..MaxEditBuf}

\* The record of a regenerate that returned r.
Regenerated(r) ==
  [op |-> "regenerate", callok |-> r.ok, n |-> 0, firstline |-> 0,
   lastline |-> 0, linedata |-> <<>>, first |-> 0, lst |-> 0,
   before |-> NoBufData]

InitEdit ==
  /\ lines \in CardBuffers
  /\ \E r \in {Regenerate(lines)} :
       /\ bd = r.bd
       /\ last = Regenerated(r)
  /\ w = WIdle
  /\ ev = NoEvents

\* BufData::update(firstline, lastline, linedata); first and lst are the
\* ends of the window the update has parsed, before the containers it found.
EditUpdate ==
  /\ last.n < MaxEdits
  /\ \E firstline \in 0..Len(lines) :
     \E lastline \in firstline..Len(lines) :
     \E linedata \in {<<>>} \cup {<<t>> : t \in CardTexts} :
       /\ Len(lines) + Len(linedata) - (lastline - firstline) <= MaxEditBuf
       /\ \E u \in {BufDataUpdate(lines, bd, firstline, lastline, linedata)} :
            /\ lines' = u.lines
            /\ bd' = u.bd
            /\ last' = [op |-> "update", callok |-> u.ok, n |-> last.n + 1,
                        firstline |-> firstline, lastline |-> lastline,
                        linedata |-> linedata, first |-> u.first,
                        lst |-> u.last, before |-> bd]
  /\ UNCHANGED <<w, ev>>

\* BufData::regenerate
EditRegenerate ==
  /\ last.op = "update"
  /\ \E r \in {Regenerate(lines)} :
       /\ bd' = r.bd
       /\ last' = Regenerated(r)
  /\ UNCHANGED <<lines, w, ev>>

NextEdit ==
  \/ EditUpdate
  \/ EditRegenerate

SpecEdit == InitEdit /\ [][NextEdit]_vars

-----------------------------------------------------------------------------
(* Properties of the orchestrator                                           *)

\* C1: after a full parse and any sequence of successful updates, the
\* level-1 folds and the highlights equal the ones a full parse of the
\* buffer text produces.
C1_UpdateEqualsFullParse ==
  last.ok =>
    \E r \in {Regenerate(lines)} :
      /\ bd.folds = r.bd.folds
      /\ bd.highlights = r.bd.highlights

\* start <= end for every fold, and every fold starts after the end of the
\* fold before it.
SortedDisjoint(folds) ==
  /\ \A i \in 1..Len(folds) : folds[i].start <= folds[i].end
  /\ \A i \in 1..(Len(folds) - 1) : folds[i].end < folds[i + 1].start

\* C2: after any full parse and any sequence of updates, the level-1 folds
\* are sorted by start and pairwise disjoint.
C2_FoldsSortedDisjoint == last.ok => SortedDisjoint(bd.folds)

-----------------------------------------------------------------------------
(* Properties of the cursor and of the skip functions (SpecWalk)            *)

IsComment(n) == Kw(lines, n) = "Comment"

\* The non-comment lines below line n, in order.
NonCommentsBelow(n) ==
  SelectSeq([i \in 1..n |-> i - 1], LAMBDA k : ~IsComment(k))

\* The first non-comment line after line n, NoLine when there is none.
FirstNonCommentAfter(n) ==
  IF \E k \in (n + 1)..(Len(lines) - 1) : ~IsComment(k)
  THEN CHOOSE k \in (n + 1)..(Len(lines) - 1) :
         ~IsComment(k) /\ \A m \in (n + 1)..(k - 1) : IsComment(m)
  ELSE NoLine

\* The last line the cursor has delivered.
LastDelivered == w.delivered[Len(w.delivered)]

\* skip_card has just returned w.res (to skip_card_gather or, through
\* skip_fold, to parse_from_iter); skip_ges has just returned w.gres.
CardReturned == w.pc \in {"skip_card_gather", "fold_done"}

GesReturned == w.pc = "ges_done"

\* The line numbers a walker state holds as lines it got from the cursor.
HeldLines ==
  {w.got, w.kwline, w.skipline, w.previdx, w.nextline, w.gskip, w.gprev,
   w.gnext, w.gres.sr.skip_end, w.gres.sr.nextline, w.res.skip_end,
   w.res.nextline} \ {NoLine}

\* C3: the cursor delivers every non-comment line it passes, in order, and
\* never a comment line; no line returned by next or by a skip function (as
\* the line itself, as nextline or as skip_end) is a comment line.
C3_NoCommentDelivered ==
  /\ w.delivered = NonCommentsBelow(w.pos)
  /\ \A n \in HeldLines : ~IsComment(n)

\* C3 witness: the cursor has passed a comment line and delivered the line
\* after it.
C3_Witness ==
  /\ w.pc = "done"
  /\ \E n \in 0..(w.pos - 2) : IsComment(n) /\ ~IsComment(n + 1)

\* C4: skip_card consumes no keyword line besides the one it was started
\* on: no line in (skipline, skip_end] carries a keyword.
C4_NoKeywordConsumed ==
  CardReturned =>
    \A n \in (w.skipline + 1)..w.res.skip_end :
      Kw(lines, n) \in {"None", "Comment"}

\* C5: skip_card returns skip_end >= skipline; when the input ended during
\* the walk, nextline is None and skip_end is the last line the cursor
\* delivered; the full parse then closes the fold at that line and ends
\* without an error.
C5_SkipEndAtEndOfInput ==
  /\ CardReturned =>
       /\ w.res.skip_end >= w.skipline
       /\ w.res.nextline = NoLine =>
            /\ w.res.skip_end = LastDelivered
            /\ FirstNonCommentAfter(w.res.skip_end) = NoLine
  /\ w.pc = "done" =>
       /\ ~w.err
       /\ (w.folds # <<>> /\ w.res.nextline = NoLine) =>
            w.folds[Len(w.folds)].end = LastDelivered

\* C5 witness: the input ended in the middle of a card, after a line that
\* is not the keyword line, and the parse is over.
C5_Witness ==
  /\ w.pc = "done"
  /\ w.folds # <<>>
  /\ w.res.nextline = NoLine
  /\ w.res.skip_end > w.skipline
  /\ w.row < Len(Card(w.card).lines)

\* skip_card has returned after its loop took every row of the card, with a
\* nextline.
AllRowsMatched ==
  /\ CardReturned
  /\ w.row = Len(Card(w.card).lines)
  /\ w.res.nextline # NoLine

\* C6, as stated: when all rows were matched and a nextline is returned,
\* nextline.index = skip_end + 1.
C6_NextlineIsSkipEndPlusOne ==
  AllRowsMatched => w.res.nextline = w.res.skip_end + 1

\* The number of comment lines that follow line n directly.
RECURSIVE CommentsAfter(_)
CommentsAfter(n) ==
  IF n + 1 < Len(lines) /\ IsComment(n + 1) THEN 1 + CommentsAfter(n + 1)
  ELSE 0

\* C6, amended: when all rows were matched and a nextline is returned,
\* nextline.index = skip_end + 1 + the number of comment lines that follow
\* skip_end directly.
C6_NextlineAfterComments ==
  AllRowsMatched =>
    w.res.nextline = w.res.skip_end + 1 + CommentsAfter(w.res.skip_end)

\* C6 witness: all rows matched, a nextline, and a comment line in between.
C6_Witness ==
  /\ AllRowsMatched
  /\ w.res.skip_end > w.skipline
  /\ CommentsAfter(w.res.skip_end) > 0

\* sr is a SkipResult with a nextline and the cursor stands where the
\* function that returned it left it: nextline comes after skip_end with
\* only comment lines in between, it is the line the cursor delivered right
\* after the line skip_end, and it is the last line the cursor delivered.
NextlineFollows(sr) ==
  /\ sr.nextline > sr.skip_end
  /\ \A n \in (sr.skip_end + 1)..(sr.nextline - 1) : IsComment(n)
  /\ Len(w.delivered) >= 2
  /\ w.delivered[Len(w.delivered)] = sr.nextline
  /\ w.delivered[Len(w.delivered) - 1] = sr.skip_end
  /\ w.pos = sr.nextline + 1

\* C7: every SkipResult with a nextline that skip_ges, skip_card,
\* skip_card_gather or skip_fold returns has nextline.index > skip_end, only
\* comment lines between the two, and nextline is what the cursor delivered
\* right after the line skip_end.
C7_NextlineFollowsSkipEnd ==
  /\ (CardReturned /\ w.res.nextline # NoLine) => NextlineFollows(w.res)
  /\ (GesReturned /\ w.gres.some /\ w.gres.sr.nextline # NoLine) =>
       NextlineFollows(w.gres.sr)

\* C7 witness: skip_ges returned a nextline that lies behind a comment line.
C7_Witness ==
  /\ GesReturned
  /\ w.gres.some
  /\ w.gres.sr.nextline > w.gres.sr.skip_end + 1

\* The last line of the run of GES lines that starts at line n: the lines
\* the cursor delivers after n as long as they are contained in the GES.
RECURSIVE GesLast(_)
GesLast(n) ==
  IF /\ FirstNonCommentAfter(n) # NoLine
     /\ GesContains(Text(lines, FirstNonCommentAfter(n)))
  THEN GesLast(FirstNonCommentAfter(n))
  ELSE n

\* The cursor stands right behind line n when n is a line, and is used up
\* when n is NoLine.
CursorBehind(n) ==
  IF n = NoLine THEN w.pos = w.hi /\ FirstNonCommentAfter(LastDelivered) = NoLine
  ELSE w.pos = n + 1 /\ LastDelivered = n

\* C8: skip_ges on a terminator line pulls one more line and returns
\* skip_end = the line it was given, with the line pulled (or None) as
\* nextline; on a contained line that is no terminator it pulls lines while
\* they are contained, consumes the line that breaks containment when that
\* is a terminator, and returns skip_end = the last GES line consumed and
\* nextline = the first non-comment line after it, None at the end of input.
C8_SkipGesResult ==
  (GesReturned /\ w.gres.some) =>
    LET cur == w.gskip
        sr == w.gres.sr
        e == GesLast(cur)
        t == FirstNonCommentAfter(e)
    IN /\ CursorBehind(sr.nextline)
       /\ IF GesEndedBy(Text(lines, cur))
          THEN sr = SkipResult(cur, FirstNonCommentAfter(cur))
          ELSE /\ GesContains(Text(lines, cur))
               /\ IF t # NoLine /\ GesEndedBy(Text(lines, t))
                  THEN sr = SkipResult(t, FirstNonCommentAfter(t))
                  ELSE sr = SkipResult(e, t)

\* C8 witness: skip_ges was given a contained line, consumed the terminator
\* of the GES and returned the line after it.
C8_Witness ==
  /\ GesReturned
  /\ w.gres.some
  /\ GesContains(Text(lines, w.gskip))
  /\ w.gres.sr.skip_end > w.gskip
  /\ GesEndedBy(Text(lines, w.gres.sr.skip_end))
  /\ w.gres.sr.nextline # NoLine

\* The walker is about to take a Ges row on a line that is neither
\* contained in the GES nor a terminator.
GesNotApplicable ==
  /\ w.pc = "rows"
  /\ ~RowsLeave(lines, w)
  /\ NextRow(w).kind = "Ges"
  /\ ~GesContains(Text(lines, w.nextline))
  /\ ~GesEndedBy(Text(lines, w.nextline))

\* C9: on a line that is neither contained nor a terminator skip_ges
\* returns None, which is no SkipResult at all, and pulls nothing from the
\* cursor; skip_card then goes on with the row after the Ges row on the same
\* current line, having consumed no line, and without an error.
C9_GesNotApplicable ==
  [][/\ GesNotApplicable =>
          /\ w'.pc = "ges_done"
          /\ w'.gres = GesNone
          /\ w'.gres # GesSome(SkipResult(w.nextline, NoLine))
          /\ w'.pos = w.pos
          /\ w'.delivered = w.delivered
     /\ (GesReturned /\ ~w.gres.some) =>
          /\ w'.pc = "rows"
          /\ w'.row = w.row
          /\ w'.nextline = w.gskip
          /\ w'.nextline = w.nextline
          /\ w'.previdx = w.previdx
          /\ w'.pos = w.pos
          /\ w'.delivered = w.delivered
          /\ ~w'.err]_vars

\* C9 witness: skip_ges has returned None on the current line of a Ges row,
\* with the cursor right behind that line.
C9_Witness ==
  /\ GesReturned
  /\ ~w.gres.some
  /\ w.gskip = w.nextline
  /\ w.pos = w.nextline + 1
  /\ Card(w.card).lines[w.row].kind = "Ges"

\* The places of the walker that lie inside a loop of a skip function or of
\* parse_from_iter whose iteration is one step.
LoopPcs ==
  {"skip_to_next_keyword", "repeat", "block", "block_advance", "optblock",
   "ges_while"}

\* C10: the skip functions and parse_from_iter terminate on every buffer:
\* an iteration of any of their loops pulls a line from the cursor or leaves
\* the loop, every started fold is closed after a line was pulled, and the
\* parse comes to its end, without an error.
C10_Terminates ==
  /\ [][/\ (w.pc \in LoopPcs /\ w'.pc \in LoopPcs) => w'.pos > w.pos
        /\ w.pc = "fold_done" => w.pos > w.kwline
        /\ w.pc = "skip_card_gather" => w.pos > w.skipline]_vars
  /\ <>(w.pc = "done" /\ ~w.err)

\* C10 witness: the parse ended after its loop closed two folds, one of them
\* of more than two lines.
C10_Witness ==
  /\ w.pc = "done"
  /\ Len(w.folds) >= 2
  /\ \E i \in 1..Len(w.folds) : w.folds[i].end > w.folds[i].start + 1

\* skip_fold has just returned w.res to parse_from_iter.
FoldReturned == w.pc = "fold_done"

\* C11: skip_fold returns the extent of one fold: one card when the card
\* owns its fold, and otherwise the longest run of cards with the keyword of
\* the first one: every keyword line from the first line to skip_end has that
\* keyword, and the run ends at a line with another keyword, at a line
\* without a keyword or at the end of input; parse_from_iter stores the
\* extent as one fold.
C11_OneFoldPerSkipFold ==
  [][FoldReturned =>
       /\ w.res.skip_end >= w.kwline
       /\ Card(w.card).keyword = Kw(lines, w.kwline)
       /\ w.gather = ~Card(w.card).ownfold
       /\ ~w.gather => w.skipline = w.kwline
       /\ w.gather =>
            /\ \A n \in w.kwline..w.res.skip_end :
                 Kw(lines, n) \in {w.card, "Comment"}
            /\ Kw(lines, w.skipline) = w.card
            /\ \/ w.res.nextline = NoLine
               \/ Kw(lines, w.res.nextline) # w.card
       /\ w'.folds = Append(w.folds, [start |-> w.kwline,
                                      end |-> w.res.skip_end,
                                      kw |-> w.card])]_vars

\* C11 witness: skip_fold gathered a run of two cards with a comment line
\* between them, ended by a line without a keyword.
C11_Witness ==
  /\ FoldReturned
  /\ w.gather
  /\ w.res.skip_end = w.kwline + 2
  /\ IsComment(w.kwline + 1)
  /\ w.skipline > w.kwline
  /\ w.res.nextline # NoLine
  /\ Kw(lines, w.res.nextline) = "None"

\* Line n lies in the range of fold f.
InFold(n, f) == f.start <= n /\ n <= f.end

\* C12: after a full parse no highlight is stored on a comment line and no
\* fold starts or ends on a comment line, so that the comment lines after
\* the last consumed line of a card are outside its fold; every line a card
\* put highlights on lies in a fold of that card, and a comment line between
\* two such lines of one fold lies strictly inside the fold's range.
C12_CommentsAndFolds ==
  (w.pc = "done" /\ ~w.err) =>
    /\ \A i \in 1..Len(w.hls) : ~IsComment(w.hls[i].line)
    /\ \A i \in 1..Len(w.folds) :
         /\ ~IsComment(w.folds[i].start)
         /\ ~IsComment(w.folds[i].end)
         /\ w.folds[i].end + 1 < Len(lines) /\ IsComment(w.folds[i].end + 1)
              => \A j \in 1..Len(w.folds) :
                   ~InFold(w.folds[i].end + 1, w.folds[j])
    /\ \A i \in 1..Len(w.hls) :
         \E j \in 1..Len(w.folds) :
           InFold(w.hls[i].line, w.folds[j]) /\ w.folds[j].kw = w.hls[i].card
    /\ \A j \in 1..Len(w.folds), a, b \in 1..Len(w.hls) :
         \A n \in (w.hls[a].line + 1)..(w.hls[b].line - 1) :
           (InFold(w.hls[a].line, w.folds[j]) /\
            InFold(w.hls[b].line, w.folds[j]) /\ IsComment(n))
             => w.folds[j].start < n /\ n < w.folds[j].end

\* C12 witness: a full parse ended with a fold that has a comment line
\* between two highlighted lines and a comment line right after its end.
C12_Witness ==
  /\ w.pc = "done"
  /\ ~w.err
  /\ \E j \in 1..Len(w.folds), a, b \in 1..Len(w.hls) :
       /\ w.hls[a].line = w.folds[j].start
       /\ w.hls[b].line = w.folds[j].end
       /\ \E n \in (w.hls[a].line + 1)..(w.hls[b].line - 1) : IsComment(n)
       /\ w.folds[j].end + 1 < Len(lines)
       /\ IsComment(w.folds[j].end + 1)

\* The step is a call of update with firstline = lastline and no new lines:
\* an edit that adds and removes nothing.
NoOpUpdate == last'.op = "update" /\ last'.noop

\* C13: an update with firstline = lastline and no lines added or removed
\* leaves the level-1 folds, the level-2 folds and the highlights as they
\* were, wherever in the buffer it is made.
C13_NoOpUpdateChangesNothing ==
  [][NoOpUpdate => (lines' = lines /\ bd' = bd)]_vars

Spliced == last.op = "splice"

FoldShifted(f) == [f EXCEPT !.start = @ + last.line_delta,
                            !.end = @ + last.line_delta]

HlShifted(h) == [h EXCEPT !.line = @ + last.line_delta]

\* The container after the splice is made of three parts: the entries of the
\* old one for which Keep holds, unchanged; the new sub-container; and the
\* entries of the old one for which Move holds, in their order and changed
\* only by line_delta in their line numbers.
ThreeParts(old, new, now, Keep(_), Move(_), Shifted(_)) ==
  LET kept == SelectSeq(old, Keep)
      moved == SelectSeq(old, Move)
  IN now = kept \o new \o [i \in 1..Len(moved) |-> Shifted(moved[i])]

-----------------------------------------------------------------------------
(* SpecCond: Conditional::evaluate applied once to any RelChar and any line *)
(* of at most MaxCondLen characters.  A line is a &str: a sequence of       *)
(* characters stored as their UTF-8 bytes.                                  *)

\* Longest line, in characters.
MaxCondLen == 2

\* Largest index of a RelChar.
MaxCondIdx == 3

\* The characters of the lines and of the RelChar.
CondChars == {"a", "b", "U+00E9"}

\* The UTF-8 encoding of a character: one byte for "a" and "b", two bytes for
\* U+00E9.
Utf8(ch) ==
  CASE ch = "a" -> <<97>>
    [] ch = "b" -> <<98>>
    [] ch = "U+00E9" -> <<195, 169>>

\* The bytes of a string.
RECURSIVE AsBytes(_)
AsBytes(str) ==
  IF str = <<>> THEN <<>> ELSE Utf8(Head(str)) \o AsBytes(Tail(str))

\* str::is_char_boundary(i): the start, the end, or a byte that does not
\* continue a character.
IsCharBoundary(bytes, i) ==
  \/ i = 0
  \/ i = Len(bytes)
  \/ i < Len(bytes) /\ bytes[i + 1] \notin 128..191

\* str::get(lo..hi): Some(the bytes lo..hi-1) when the range lies in the
\* string and on character boundaries, None otherwise.  Some(x) is <<x>>,
\* None is <<>>.
StrGet(bytes, lo, hi) ==
  IF /\ lo <= hi
     /\ hi <= Len(bytes)
     /\ IsCharBoundary(bytes, lo)
     /\ IsCharBoundary(bytes, hi)
  THEN <<SubSeq(bytes, lo + 1, hi)>>
  ELSE <<>>

\* An evaluation that takes idx as a 1-based column.
ConditionalEvaluateOneBased(idx, c, line) ==
  idx >= 1 /\ StrGet(AsBytes(line), idx - 1, idx) = <<Utf8(c)>>

\* Conditional::evaluate of RelChar(idx, c) on the line:
\* line.get(idx..idx + 1) == Some(&c.to_string())
ConditionalEvaluate(idx, c, line) ==
  StrGet(AsBytes(line), idx, idx + 1) = <<Utf8(c)>>

CondLines == UNION {[1..n -> CondChars] : n \in 0..MaxCondLen}

InitCond ==
  /\ lines = <<>>
  /\ w = WIdle
  /\ bd = NoBufData
  /\ ev = NoEvents
  /\ \E line \in CondLines, idx \in 0..MaxCondIdx, c \in CondChars :
       last = [op |-> "relchar", line |-> line, idx |-> idx, c |-> c,
               result |-> FALSE]

\* RelChar(idx, c).evaluate(&line)
DoEvaluate ==
  /\ last.op = "relchar"
  /\ last' = [last EXCEPT !.op = "evaluated",
                          !.result = ConditionalEvaluate(last.idx, last.c,
                                                         last.line)]
  /\ UNCHANGED <<lines, w, bd, ev>>

NextCond == DoEvaluate

SpecCond == InitCond /\ [][NextCond]_vars

-----------------------------------------------------------------------------
(* Properties of the event loop                                             *)

\* The triple packup_all_folds makes of the fold f.
Triple(f) == <<f.start + 1, f.end + 1, f.kw>>

\* C16: whenever the folds are sent, the value packup_all_folds made of them
\* has one triple per stored fold: the level-1 folds in container order,
\* followed by the level-2 folds in container order, each with the fold's
\* 0-based inclusive start and end raised by one and with its text.
C16_PackupAllFolds ==
  [][ev'.nsent > ev.nsent =>
       /\ Len(ev'.sent) = Len(bd'.folds) + Len(bd'.folds_level2)
       /\ \A i \in 1..Len(bd'.folds) : ev'.sent[i] = Triple(bd'.folds[i])
       /\ \A i \in 1..Len(bd'.folds_level2) :
            ev'.sent[Len(bd'.folds) + i] = Triple(bd'.folds_level2[i])]_vars

\* RefreshFolds has just sent level-1 folds and level-2 folds.
C16_Witness ==
  /\ ev.status = "running"
  /\ ev.handled >= 1
  /\ ev.all[ev.handled].type = "RefreshFolds"
  /\ Len(bd.folds) >= 2
  /\ Len(bd.folds_level2) >= 1
  /\ Len(ev.sent) = Len(bd.folds) + Len(bd.folds_level2)

\* C18: when the parse of an incremental update fails, the loop goes on
\* with the folds, level-2 folds and highlights of a parse of the whole
\* buffer.
C18_FailedUpdateRebuilds ==
  [][(ev'.violation /\ ~ev.violation) =>
       /\ ev'.status = "running"
       /\ bd' = Regenerate(lines').bd]_vars

\* The place of the first Quit in the queue q, 0 when it has none.
FirstQuit(q) ==
  LET at == {k \in 1..Len(q) : q[k] = Quit}
  IN IF at = {} THEN 0 ELSE CHOOSE k \in at : \A m \in at : k <= m

\* C20: the loop that receives Quit returns Ok in that step; when it has
\* returned Ok, it has received the events before the first Quit of the
\* queue, one by one, and that Quit; and once it has returned it receives
\* nothing any more.
C20_QuitEndsLoop ==
  /\ [][(ev'.handled = ev.handled + 1 /\ ev.all[ev'.handled] = Quit)
          => ev'.status = "Ok"]_vars
  /\ [](ev.status = "Ok" =>
          /\ FirstQuit(ev.all) # 0
          /\ ev.handled = FirstQuit(ev.all))
  /\ [][ev.status = "running"]_vars

\* The loop has returned Ok after an edit of the buffer, with an event left
\* in the queue behind Quit.
C20_Witness ==
  /\ ev.status = "Ok"
  /\ ev.handled = 2
  /\ ev.all[1].type = "LinesEvent"
  /\ ev.handled < Len(ev.all)

-----------------------------------------------------------------------------
(* Properties of Conditional::evaluate                                      *)

C19_WitnessEmpty ==
  /\ last.op = "evaluated"
  /\ ~last.result
  /\ last.line = <<>>

-----------------------------------------------------------------------------
(* Properties of the event loop: order of the updates                       *)

\* The buffer ls after the edit the event e reports: a LinesEvent with
\* changedtick 0 reports none, one with lastline = -1 the whole buffer, one
\* with nonnegative line numbers the replacement of the lines
\* firstline..lastline-1 by linedata.
AfterEvent(ls, e) ==
  IF e.type # "LinesEvent" THEN ls
  ELSE IF e.changedtick = 0 THEN ls
  ELSE IF e.lastline = -1 THEN e.linedata
  ELSE IF e.firstline < 0 \/ e.lastline < 0 THEN ls
  ELSE [i \in 1..(Len(ls) + Len(e.linedata) - (e.lastline - e.firstline)) |->
          IF i <= e.firstline THEN ls[i]
          ELSE IF i <= e.firstline + Len(e.linedata)
               THEN e.linedata[i - e.firstline]
               ELSE ls[i - Len(e.linedata) + (e.lastline - e.firstline)]]

\* C21: every step of the loop takes exactly the oldest event of the channel
\* that it has not yet taken, an event the handler thread has already put
\* there, and leaves the buffer as the edit of that one event makes it; a
\* step that takes no event leaves the buffer alone.  So the updates are
\* applied one at a time, in the order they were sent, none twice and none
\* left out.
C21_UpdatesInOrder ==
  [][/\ ev'.handled \in {ev.handled, ev.handled + 1}
     /\ ev'.handled <= ev.put
     /\ ev'.handled = ev.handled => lines' = lines
     /\ ev'.handled = ev.handled + 1 =>
          lines' = AfterEvent(lines, ev.all[ev'.handled])]_vars

\* Two edits were applied while the handler thread had already sent a
\* third event.
C21_Witness ==
  /\ ev.status = "running"
  /\ ev.handled = 2
  /\ ev.put = 3
  /\ \A k \in 1..2 : /\ ev.all[k].type = "LinesEvent"
                     /\ ev.all[k].changedtick # 0
                     /\ ev.all[k].lastline >= 0
                     /\ ev.all[k].firstline >= 0
  /\ ev.all[1] # ev.all[2]

-----------------------------------------------------------------------------
(* Properties of the rows Block, OptionalBlock, Optional and Repeat         *)

\* The smallest element of a nonempty set of line numbers.
MinLine(S) == CHOOSE n \in S : \A m \in S : n <= m

\* The non-comment lines after the keyword line of the card being walked
\* that start with the prefix s or carry a keyword.
BlockStops(s) ==
  {n \in (w.skipline + 1)..(Len(lines) - 1) :
     /\ ~IsComment(n)
     /\ StartsWith(Text(lines, n), s) \/ IsKeywordLine(lines, n)}

\* C22: the Block row of the card BLK, which gets the first line after the
\* keyword line as its current line, ends with the first line that starts
\* with the terminator END: skip_card returns that line as skip_end and the
\* line after it as nextline; when a keyword line comes first, the keyword
\* line is returned as nextline and is not consumed.
C22_BlockEndsAtTerminator ==
  (CardReturned /\ w.card = "BLK" /\ BlockStops("END") # {}) =>
    \E t \in {MinLine(BlockStops("END"))} :
      IF IsKeywordLine(lines, t)
      THEN w.res.nextline = t /\ w.res.skip_end < t
      ELSE w.res.skip_end = t /\ w.res.nextline = FirstNonCommentAfter(t)

\* C23: when the loop over the rows of the card OBLK has dealt with the
\* OptionalBlock("x", "END") row, whose current line was the first line c
\* after the keyword line: nothing was consumed when c does not start with
\* "x"; otherwise the lines up to and including the first line that starts
\* with "END" were consumed and the line after it is the current line, or a
\* keyword line that came first is the current line and was not consumed.
C23_OptionalBlock ==
  (w.pc = "rows" /\ w.card = "OBLK" /\ w.row = 2) =>
    \E c \in {FirstNonCommentAfter(w.skipline)} :
      IF ~StartsWith(Text(lines, c), "x")
      THEN w.nextline = c /\ w.previdx = w.skipline
      ELSE /\ BlockStops("END") # {}
           /\ \E t \in {MinLine(BlockStops("END"))} :
                IF IsKeywordLine(lines, t)
                THEN w.nextline = t /\ w.previdx < t
                ELSE w.previdx = t /\ w.nextline = FirstNonCommentAfter(t)

\* The i-th condition result recorded so far (0-based) is boolean true.
CondIsTrue(i) ==
  /\ i + 1 <= Len(w.conds)
  /\ w.conds[i + 1].t = "Bool"
  /\ w.conds[i + 1].v = 1

\* The row loop of skip_card stands before a row of the given kind.
BeforeRow(kind) ==
  /\ w.pc = "rows"
  /\ w.row < Len(Card(w.card).lines)
  /\ ~IsKeywordLine(lines, w.nextline)
  /\ Card(w.card).lines[w.row + 1].kind = kind

\* The current line was consumed and nothing else: the line after it is the
\* current line now, or the input has ended and skip_card has returned the
\* consumed line as skip_end.
ConsumedOneLine ==
  /\ w'.delivered \in {w.delivered, Append(w.delivered, w'.nextline)}
  /\ IF FirstNonCommentAfter(w.nextline) # NoLine
     THEN /\ w'.pc = "rows"
          /\ w'.previdx = w.nextline
          /\ w'.nextline = FirstNonCommentAfter(w.nextline)
          /\ w'.delivered = Append(w.delivered, w'.nextline)
     ELSE /\ w'.pc = IF w.gather THEN "skip_card_gather" ELSE "fold_done"
          /\ w'.res = SkipResult(w.nextline, NoLine)
          /\ w'.delivered = w.delivered

\* C24: an Optional row with the index i consumes exactly one line when the
\* i-th condition result recorded so far is boolean true; otherwise (false,
\* not a boolean, no such result) the walker goes on to the next row with
\* the cursor, the current line and everything else as they were.  The
\* results are recorded in row order, the first one from the keyword line:
\* in the card OPN they are those of the keyword line and of the two lines
\* after it.
C24_OptionalRow ==
  /\ [][BeforeRow("Optional") =>
          IF CondIsTrue(Card(w.card).lines[w.row + 1].i)
          THEN ConsumedOneLine
          ELSE w' = [w EXCEPT !.row = @ + 1]]_vars
  /\ [](BeforeRow("Optional") /\ w.card = "OPN" =>
          w.conds = <<Evaluate(RelChar(0, "x"), Text(lines, w.skipline)),
                      Evaluate(IntAt(0), Text(lines, w.skipline + 1)),
                      Evaluate(RelChar(0, "x"),
                               Text(lines, w.skipline + 2))>>)

\* In the card OPN the rows Optional(0) (false) and Optional(1) (a number)
\* have consumed nothing and the row Optional(2) (true) has consumed the
\* line after the three lines that gave the results.
C24_Witness ==
  /\ w.pc = "rows"
  /\ w.card = "OPN"
  /\ w.row = 6
  /\ w.conds[1] = CondBool(FALSE)
  /\ w.conds[2] = CondNumber(2)
  /\ w.conds[3] = CondBool(TRUE)
  /\ w.previdx = w.skipline + 3
  /\ w.nextline = w.skipline + 4

\* The number N the i-th condition result recorded so far gives a Repeat
\* row: its value when it is a number above 0, and 0 otherwise.
RepeatCount(i) ==
  IF i + 1 <= Len(w.conds) /\ w.conds[i + 1].t = "Number"
     /\ w.conds[i + 1].v > 0
  THEN w.conds[i + 1].v
  ELSE 0

\* The number of lines from line n on that come before the next keyword
\* line or the end of the input (the buffers of SpecRows have no comment
\* lines).
RECURSIVE LinesBeforeKeyword(_)
LinesBeforeKeyword(n) ==
  IF n < Len(lines) /\ ~IsKeywordLine(lines, n)
  THEN 1 + LinesBeforeKeyword(n + 1)
  ELSE 0

Min(a, b) == IF a <= b THEN a ELSE b

\* The walk of the card REP is through with the row Repeat(1), its last
\* row; the rows Repeat(0) and Repeat(2) before it got the line 2 after the
\* keyword line as the current line and passed it on.
RepeatRowDone ==
  /\ w.card = "REP"
  /\ w.row = 5
  /\ w.pc \in {"rows", "fold_done"}

\* The last line consumed by the card walk.
ConsumedUpTo == IF w.pc = "rows" THEN w.previdx ELSE w.res.skip_end

\* C25: a Repeat row whose condition result is not a number above 0
\* (a number <= 0, no number, a boolean, no such result) consumes nothing
\* and only moves the walker to the next row; the row Repeat(1) of the card
\* REP consumes min(N, number of lines before the next keyword line or the
\* end of the input) lines; the repeat loop never has a keyword line as the
\* line to consume, the card walk consumes none, and the parse reports no
\* error.
C25_RepeatRow ==
  /\ [][(BeforeRow("Repeat")
           /\ RepeatCount(Card(w.card).lines[w.row + 1].i) = 0)
          => w' = [w EXCEPT !.row = @ + 1]]_vars
  /\ [](RepeatRowDone =>
          ConsumedUpTo - (w.skipline + 1)
            = Min(RepeatCount(1), LinesBeforeKeyword(w.skipline + 2)))
  /\ [](w.pc = "repeat" => ~IsKeywordLine(lines, w.nextline))
  /\ [](w.card = "REP" /\ w.pc \in {"rows", "repeat", "fold_done"} =>
          \A n \in (w.skipline + 1)..ConsumedUpTo : ~IsKeywordLine(lines, n))
  /\ [](~w.err)

\* The row Repeat(1) of the card REP had the count 2 and was cut short by a
\* keyword line after one line.
C25_Witness ==
  /\ RepeatRowDone
  /\ w.pc = "rows"
  /\ RepeatCount(1) = 2
  /\ w.previdx = w.skipline + 2
  /\ IsKeywordLine(lines, w.nextline)

\* The row Repeat(1) of the card REP had the count 2 and consumed two lines.
C25_WitnessFull ==
  /\ RepeatRowDone
  /\ RepeatCount(1) = 2
  /\ ConsumedUpTo = w.skipline + 3

-----------------------------------------------------------------------------
(* Properties of BufData::update                                            *)

\* The change of the number of lines by the last update.
Added == Len(last.linedata) - (last.lastline - last.firstline)

\* The folds and highlights the last update got from parsing its window.
Parsed == ParseFromIter(lines, last.first, last.lst)

\* The level-1 folds and the highlights the splices of the last update give.
SplicedFolds ==
  FoldsSplice(last.before.folds, Parsed.folds, last.firstline, last.lastline,
              Added)

SplicedHighlights ==
  HlSplice(last.before.highlights, Parsed.hls, last.firstline, last.lastline,
           Added)

\* C26: when the level-2 folds cannot be derived from the level-1 folds the
\* splice of an update gives, the update has returned Ok all the same, and
\* it has stored the spliced level-1 folds and the spliced highlights.
C26_Level2FailureIgnored ==
  (last.op = "update" /\ ~Parsed.err /\ ~RecreateLevel2(SplicedFolds).ok) =>
    /\ last.callok
    /\ bd.folds = SplicedFolds
    /\ bd.highlights = SplicedHighlights

\* An update has changed the level-1 folds and the highlights, and the
\* level-2 folds cannot be derived from the folds it has stored.
C26_Witness ==
  /\ last.op = "update"
  /\ last.callok
  /\ ~RecreateLevel2(bd.folds).ok
  /\ RecreateLevel2(last.before.folds).ok
  /\ bd.folds # last.before.folds
  /\ bd.highlights # last.before.highlights

\* The range of lines the last update has given to Folds::splice and to
\* Highlights::splice.
SpliceRange == <<last.firstline, last.lastline>>

\* The window of lines the last update has parsed afresh.
WidenedWindow == <<last.first, last.lst>>

\* The fold f begins before the line l and ends at it or behind it.
Straddles(f, l) == f.start < l /\ l <= f.end

\* C27: the range an update gives to the two splices is the window it has
\* parsed afresh, from the keyword line at or before firstline to the
\* keyword line at or after lastline + added, and no level-1 fold the update
\* found begins before an end of that range and reaches it or goes beyond.
C27_SpliceOnWidenedWindow ==
  last.op = "update" =>
    /\ SpliceRange = WidenedWindow
    /\ \A i \in 1..Len(last.before.folds) :
         /\ ~Straddles(last.before.folds[i], SpliceRange[1])
         /\ ~Straddles(last.before.folds[i], SpliceRange[2])

-----------------------------------------------------------------------------
(* Properties of the cursor                                                 *)

\* The numbers of seq grow from each entry to the next.
Increasing(seq) == \A i, j \in 1..Len(seq) : i < j => seq[i] < seq[j]

\* The cursor has no line left to deliver.
Exhausted == \A n \in w.pos..(w.hi - 1) : IsComment(n)

\* An iteration of the loop of skip_to_next_keyword ends the call with a
\* keyword line.
ReturnsKeywordLine == w.pc = "skip_to_next_keyword" /\ w'.pc = "skip_fold"

\* An iteration of the loop of skip_to_next_keyword ends the call with None.
ReturnsNone == w.pc = "skip_to_next_keyword" /\ w'.pc = "done"

\* An iteration of the loop of skip_to_next_keyword passes over a line.
PassesOver == w.pc = "skip_to_next_keyword" /\ w'.pc = "skip_to_next_keyword"

\* This step takes the line n from the cursor: n is the first line not
\* behind the cursor that is no comment, it is added to the lines delivered
\* and the cursor stands behind it.
Takes(n) ==
  /\ n \in w.pos..(w.hi - 1)
  /\ ~IsComment(n)
  /\ \A m \in w.pos..(n - 1) : IsComment(m)
  /\ w'.delivered = Append(w.delivered, n)
  /\ w'.pos = n + 1

\* C28: the lines taken from the cursor have growing numbers, so none is
\* delivered twice; skip_to_next_keyword returns a line that carries a
\* keyword, every line it takes before that carries none and is not
\* delivered again, and it returns None only when the cursor has no line
\* left; a cursor with no line left delivers nothing in any later call.
C28_CursorForwardOnly ==
  /\ [](Increasing(w.delivered))
  /\ [][/\ ReturnsKeywordLine =>
             Takes(w'.kwline) /\ IsKeywordLine(lines, w'.kwline)
        /\ PassesOver => Takes(w'.got) /\ ~IsKeywordLine(lines, w'.got)
        /\ ReturnsNone => Exhausted /\ w'.got = NoLine
        /\ Exhausted =>
             /\ w'.delivered = w.delivered
             /\ w'.got \in {w.got, NoLine}
             /\ w'.pos \in {w.pos, w.hi}]_vars

\* The walk is over: skip_to_next_keyword has passed over a line without a
\* keyword and returned the keyword line behind it, the cursor then ran out
\* of lines in skip_card, and the call of skip_to_next_keyword after that
\* returned None.
C28_Witness ==
  /\ w.pc = "done"
  /\ Len(w.delivered) >= 3
  /\ ~IsKeywordLine(lines, w.delivered[1])
  /\ IsKeywordLine(lines, w.delivered[2])
  /\ Len(w.folds) = 1
  /\ \E n \in 0..(Len(lines) - 1) : IsComment(n)
  /\ w.got = NoLine

-----------------------------------------------------------------------------
(* Properties of the event loop: what is sent to the editor                 *)

\* This step is the loop receiving the event e.
Receives(e) == ev'.handled = ev.handled + 1 /\ ev.all[ev'.handled] = e

\* e makes the loop parse the whole buffer afresh.
IsFullRebuild(e) ==
  e.type = "LinesEvent" /\ e.changedtick # 0 /\ e.lastline = -1

\* e makes the loop update its containers in place.
IsIncremental(e) ==
  /\ e.type = "LinesEvent"
  /\ e.changedtick # 0
  /\ e.lastline >= 0
  /\ e.firstline >= 0

\* This step sends the folds of the containers to the editor.
SendsFolds == ev'.nsent = ev.nsent + 1 /\ ev'.sent = PackupAllFolds(bd')

\* This step sends no folds.
SendsNoFolds == ev'.nsent = ev.nsent /\ ev'.sent = ev.sent

\* C29: when the loop is entered the folds were sent once if a file was
\* given and parsed, and not at all otherwise; after that the folds are sent
\* by the steps that receive a LinesEvent with lastline = -1 (and a nonzero
\* changedtick) or a RefreshFolds event and do not end the loop with an
\* error, and by no other step; a step that receives an incremental
\* LinesEvent sends no folds.
C29_FoldsSentOnRebuildOrRefresh ==
  /\ [](ev.status = "running" /\ ev.handled = 0 =>
          /\ ev.nsent = (IF lines # <<>> THEN 1 ELSE 0)
          /\ ev.nsent = 1 => ev.sent = PackupAllFolds(bd))
  /\ [][\A e \in Events :
          Receives(e) =>
            IF (IsFullRebuild(e) \/ e = RefreshFolds) /\ ev'.status = "running"
            THEN SendsFolds
            ELSE SendsNoFolds]_vars
  /\ [][ev'.handled = ev.handled => SendsNoFolds]_vars

\* The loop was entered with a file, has received an incremental LinesEvent
\* and goes on: the folds it stores are no longer the folds it has sent.
C29_Witness ==
  /\ ev.status = "running"
  /\ ev.handled = 1
  /\ IsIncremental(ev.all[1])
  /\ ev.nsent = 1
  /\ ev.sent # PackupAllFolds(bd)

\* The loop has just received a HighlightRegion event and sent the
\* highlights of the lines ev.hl[1]..ev.hl[2]-1.
SentRegion ==
  /\ ev.status = "running"
  /\ ev.handled >= 1
  /\ ev.all[ev.handled].type = "HighlightRegion"

\* The HighlightRegion event received last.
Region == ev.all[ev.handled]

\* The ends of the range sent are as the loop computes them.
RegionEnds ==
  /\ ev.hl[1] = FirstBefore(lines, Region.firstline)
  /\ ev.hl[2] = IF FirstAfter(lines, Region.lastline) = Region.lastline
                THEN Region.lastline + 1
                ELSE FirstAfter(lines, Region.lastline)

-----------------------------------------------------------------------------
(* Properties of a full parse                                               *)

\* C31: every fold parse_from_iter hands to checked_insert has its start at
\* or before its end and starts behind the end of the fold inserted before
\* it, so checked_insert never fails and the folds stored are in order.
C31_FoldsInOrder ==
  /\ ~w.err
  /\ FoldReturned =>
       /\ w.kwline <= w.res.skip_end
       /\ CheckedInsertOk(w.folds, w.kwline, w.res.skip_end)
  /\ \A i \in 1..Len(w.folds) :
       /\ w.folds[i].start <= w.folds[i].end
       /\ i > 1 => w.folds[i - 1].end < w.folds[i].start

\* A full parse has ended with two folds, the first longer than one line,
\* the second not right behind it, with no comment line in between.
C31_Witness ==
  /\ w.pc = "done"
  /\ Len(w.folds) = 2
  /\ w.folds[1].start < w.folds[1].end
  /\ w.folds[1].end + 1 < w.folds[2].start
  /\ ~IsComment(w.folds[1].end + 1)

\* Line n of the buffer carries a keyword other than Comment.
KeywordLineOfBuffer(n) == IsKeywordLine(lines, n) /\ ~IsComment(n)

\* The folds of the walker that line n lies in.
FoldsAround(n) == {i \in 1..Len(w.folds) : InFold(n, w.folds[i])}

\* C32: after a full parse that did not fail every level-1 fold starts on a
\* non-comment keyword line and carries the keyword of that line, and every
\* non-comment keyword line of the buffer lies in exactly one level-1 fold;
\* the parse stores one more fold each time skip_fold returns and at no
\* other step.
C32_KeywordLinesFolded ==
  /\ []((w.pc = "done" /\ ~w.err) =>
          /\ \A i \in 1..Len(w.folds) :
               /\ KeywordLineOfBuffer(w.folds[i].start)
               /\ w.folds[i].kw = Kw(lines, w.folds[i].start)
          /\ \A n \in 0..(Len(lines) - 1) :
               KeywordLineOfBuffer(n) => Cardinality(FoldsAround(n)) = 1)
  /\ [][/\ FoldReturned => Len(w'.folds) = Len(w.folds) + 1
        /\ w'.folds # w.folds => FoldReturned]_vars

\* A full parse has ended with two folds: the first gathered nothing, the
\* second holds, behind its start, a keyword line with another keyword that
\* its card consumed.
C32_Witness ==
  /\ w.pc = "done"
  /\ ~w.err
  /\ Len(w.folds) = 2
  /\ \E n \in (w.folds[2].start + 1)..w.folds[2].end :
       KeywordLineOfBuffer(n) /\ Kw(lines, n) # w.folds[2].kw

-----------------------------------------------------------------------------
(* Properties of the event loop: the end of the loop                        *)

\* The event the loop has received last.
LastReceived == ev.all[ev.handled]

\* The events whose handling makes calls that can fail.
CanFail(e) == e.type \in {"LinesEvent", "RefreshFolds", "HighlightRegion"}

\* C33: a step on which recv returns an error leaves the loop running; the
\* loop has returned only with Ok after it received Quit or with the error
\* of a call it made to handle the event it received last; and once the
\* sender is gone and the channel is empty with the loop still running, the
\* loop is running in every later state.
C33_RecvErrorKeepsLooping ==
  /\ [](ev.status \notin {"none", "running"} =>
          /\ ev.handled >= 1
          /\ \/ ev.status = "Ok" /\ LastReceived = Quit
             \/ ev.status \in {"ParseErr", "NvimErr"} /\ CanFail(LastReceived))
  /\ [][Disconnected => ev'.status = "running" /\ Disconnected']_vars
  /\ [][ev'.warned /\ ~ev.warned => Disconnected /\ ev'.status = "running"]_vars

\* The sender is gone after two events that are not Quit, the loop has
\* handled both, recv has returned an error and the loop is still running.
C33_Witness ==
  /\ ev.status = "running"
  /\ ev.closed
  /\ ev.warned
  /\ ev.handled = 2
  /\ ev.put = 2
  /\ \A i \in 1..2 : ev.all[i] # Quit
====
